---- MODULE Spec2Model ----
(***************************************************************************)
(* Model of the workers-ai-provider adapter of cf_ai_BunnyCart:            *)
(*   - getMappedStream       (streaming chunk aggregator)                  *)
(*   - mapWorkersAIUsage     (usage normalizer)                            *)
(*   - convertToWorkersAIChatMessages (message converter)                  *)
(*   - WorkersAIChatLanguageModel.doGenerate / doStream                    *)
(*                                                                         *)
(* Strings that the code concatenates are sequences of tokens (so that     *)
(* += is \o); a field that is absent is the token NoField; a null id is 0  *)
(* and generateId() returns the next value of a counter (ids >= 1).        *)
(***************************************************************************)
EXTENDS Integers, Sequences, FiniteSets, TLC

VARIABLES
  pc,               \* getMappedStream's start(): unstarted | reading | closed | errored
  consumed,         \* events of the backend byte stream read so far (history)
  usage,            \* let usage
  partialToolCalls, \* const partialToolCalls
  textId,           \* let textId      (0 is null)
  reasoningId,      \* let reasoningId (0 is null)
  idCounter,        \* number of ids generateId() has handed out
  out,              \* events enqueued on the controller, in order
  prompt,           \* options.prompt of the call
  toolsOn,          \* args.tools?.length of the call
  frequencyPenalty, \* options.frequencyPenalty (NoField is null)
  presencePenalty,  \* options.presencePenalty  (NoField is null)
  cpc,              \* position of doGenerate / doStream
  path,             \* which method and branch the call took
  conv,             \* what convertToWorkersAIChatMessages(options.prompt) gave
  runCalls,         \* the invocations of this.config.binding.run, in order
  runOutput,        \* what binding.run resolved to (non-streaming)
  genResult,        \* what doGenerate returned
  sout,             \* events enqueued on the stream doStream returns
  ppc,              \* doStream's push(): none | running | closed | failed
  forwarded,        \* events push() has read off the mapped stream
  delivered,        \* events the consumer has read off the returned stream
  cancelled,        \* the consumer has cancelled the returned stream
  twin,             \* the closure of a second getMappedStream invocation
  recommendation    \* the product recommendation tool call and its workflow

mapperVars == <<pc, consumed, usage, partialToolCalls, textId, reasoningId, idCounter, out>>

\* the options of a call
inputVars == <<prompt, toolsOn, frequencyPenalty, presencePenalty>>

callVars == <<inputVars, cpc, path, conv, runCalls, runOutput, genResult, sout>>

pipeVars == <<ppc, forwarded, delivered, cancelled>>

vars == <<mapperVars, callVars, pipeVars, twin, recommendation>>

----------------------------------------------------------------------------
\* Bounds of the model

MaxChunks == 3
MaxTokens == 2
MaxIndex == 1
MaxParts == 2
MaxTurns == 2
MaxCallTurns == 2
MaxUserParts == 2
MaxUsageTokens == 7
MaxPrice == 3
MaxProducts == 2
MaxRanked == 4

----------------------------------------------------------------------------
\* Values

NoField == "<absent>"

NoUsageField == [present |-> FALSE, prompt_tokens |-> 0, completion_tokens |-> 0]

UsageField(p, c) == [present |-> TRUE, prompt_tokens |-> p, completion_tokens |-> c]

ZeroUsage == [inputTokens |-> 0, outputTokens |-> 0, totalTokens |-> 0]

NoTool == [toolName |-> <<>>, input |-> {}]

\* A canonical stream event; every event has the same fields.
Ev(type, id, delta) ==
  [type |-> type, id |-> id, delta |-> delta, usage |-> ZeroUsage,
   finishReason |-> "", tool |-> NoTool, warnings |-> <<>>]

FinishEv(reason, u) ==
  [type |-> "finish", id |-> 0, delta |-> "", usage |-> u,
   finishReason |-> reason, tool |-> NoTool, warnings |-> <<>>]

ToolCallEv(t) ==
  [type |-> "tool-call", id |-> 0, delta |-> "", usage |-> ZeroUsage,
   finishReason |-> "", tool |-> t, warnings |-> <<>>]

\* controller.enqueue({type: "stream-start", warnings})
StreamStartEv(warnings) == [Ev("stream-start", 0, "") EXCEPT !.warnings = warnings]

\* A payload of the event stream.
JsonChunk(u, tcs, response, reasoning, content) ==
  [kind |-> "json", usage |-> u, tool_calls |-> tcs, response |-> response,
   reasoning_content |-> reasoning, content |-> content]

EmptyEvent == [JsonChunk(NoUsageField, <<>>, NoField, NoField, NoField) EXCEPT !.kind = "empty"]
DoneEvent == [JsonChunk(NoUsageField, <<>>, NoField, NoField, NoField) EXCEPT !.kind = "done"]
BadEvent == [JsonChunk(NoUsageField, <<>>, NoField, NoField, NoField) EXCEPT !.kind = "bad"]

HasLength_Defined(s) == s # NoField

\* x?.length of an optional string field
HasLength(s) == s # NoField /\ s # ""

----------------------------------------------------------------------------
\* mapWorkersAIUsage

mapWorkersAIUsage_Sum(output, prev) ==
  LET u == IF output.usage.present THEN output.usage ELSE NoUsageField
  IN  [outputTokens |-> prev.outputTokens + u.completion_tokens,
       inputTokens |-> prev.inputTokens + u.prompt_tokens,
       totalTokens |-> prev.totalTokens + u.prompt_tokens + u.completion_tokens]

mapWorkersAIUsage_Swapped(output) ==
  LET u == IF output.usage.present THEN output.usage ELSE NoUsageField
  IN  [outputTokens |-> u.prompt_tokens,
       inputTokens |-> u.completion_tokens,
       totalTokens |-> u.prompt_tokens + u.completion_tokens]

\* output.usage ?? {completion_tokens: 0, prompt_tokens: 0}, then the triple
mapWorkersAIUsage(output) ==
  LET u == IF output.usage.present THEN output.usage ELSE NoUsageField
  IN  [outputTokens |-> u.completion_tokens,
       inputTokens |-> u.prompt_tokens,
       totalTokens |-> u.prompt_tokens + u.completion_tokens]

----------------------------------------------------------------------------
\* getMappedStream: the body of the for-await loop, one section per operator.
\* The sections that enqueue work on s = [textId, reasoningId, idCounter, out].

UsageAfter_Accumulate(u, chunk) ==
  IF chunk.usage.present THEN mapWorkersAIUsage_Sum(chunk, u) ELSE u

\* if (chunk.usage) usage = mapWorkersAIUsage(chunk)
UsageAfter(u, chunk) ==
  IF chunk.usage.present THEN mapWorkersAIUsage(chunk) ELSE u

FragmentsAfter_Replace(ptc, chunk) ==
  IF chunk.tool_calls # <<>> THEN chunk.tool_calls ELSE ptc

\* if (chunk.tool_calls) partialToolCalls.push(...chunk.tool_calls)
FragmentsAfter(ptc, chunk) == ptc \o chunk.tool_calls

ResponseText_NoStart(s, chunk) ==
  IF HasLength(chunk.response)
  THEN LET s1 == IF s.textId = 0
                 THEN [s EXCEPT !.idCounter = @ + 1, !.textId = s.idCounter + 1]
                 ELSE s
       IN  [s1 EXCEPT !.out = Append(@, Ev("text-delta", s1.textId, chunk.response))]
  ELSE s

ResponseText_OwnBlock(s, chunk) ==
  IF HasLength(chunk.response)
  THEN LET s1 == [s EXCEPT !.idCounter = @ + 1,
                           !.out = Append(@, Ev("text-start", s.idCounter + 1, ""))]
       IN  [s1 EXCEPT !.out = Append(@, Ev("text-delta", s1.idCounter, chunk.response))]
  ELSE s

\* Handle top-level response text
ResponseText(s, chunk) ==
  IF HasLength(chunk.response)
  THEN LET s1 == IF s.textId = 0
                 THEN [s EXCEPT !.idCounter = @ + 1, !.textId = s.idCounter + 1,
                                !.out = Append(@, Ev("text-start", s.idCounter + 1, ""))]
                 ELSE s
       IN  [s1 EXCEPT !.out = Append(@, Ev("text-delta", s1.textId, chunk.response))]
  ELSE s

\* Handle reasoning content
ReasoningDelta(s, chunk) ==
  IF HasLength(chunk.reasoning_content)
  THEN LET s1 == IF s.reasoningId = 0
                 THEN [s EXCEPT !.idCounter = @ + 1, !.reasoningId = s.idCounter + 1,
                                !.out = Append(@, Ev("reasoning-start", s.idCounter + 1, ""))]
                 ELSE s
       IN  [s1 EXCEPT !.out = Append(@, Ev("reasoning-delta", s1.reasoningId,
                                           chunk.reasoning_content))]
  ELSE s

ChoiceText_AlwaysStart(s, chunk) ==
  IF HasLength(chunk.content)
  THEN LET s1 == [s EXCEPT !.idCounter = @ + 1, !.textId = s.idCounter + 1,
                           !.out = Append(@, Ev("text-start", s.idCounter + 1, ""))]
       IN  [s1 EXCEPT !.out = Append(@, Ev("text-delta", s1.textId, chunk.content))]
  ELSE s

\* Handle text content from choices
ChoiceText(s, chunk) ==
  IF HasLength(chunk.content)
  THEN LET s1 == IF s.textId = 0
                 THEN [s EXCEPT !.idCounter = @ + 1, !.textId = s.idCounter + 1,
                                !.out = Append(@, Ev("text-start", s.idCounter + 1, ""))]
                 ELSE s
       IN  [s1 EXCEPT !.out = Append(@, Ev("text-delta", s1.textId, chunk.content))]
  ELSE s

ChunkEvents_ReasoningFirst(s, chunk) ==
  ChoiceText(ResponseText(ReasoningDelta(s, chunk), chunk), chunk)

\* the three enqueueing sections of one loop iteration, in the loop's order
ChunkEvents(s, chunk) == ChoiceText(ReasoningDelta(ResponseText(s, chunk), chunk), chunk)

----------------------------------------------------------------------------
\* JSON argument strings are sequences of the tokens  {  "a":  1  }
\* ParseJSON recognises the objects {} and {"a":1}; its value is the set of
\* key/value pairs of the object.

ParseJSON(str) ==
  IF Len(str) >= 2 /\ str[1] = "{" /\ str[Len(str)] = "}"
  THEN LET body == SubSeq(str, 2, Len(str) - 1)
       IN  IF body = <<>> THEN [ok |-> TRUE, value |-> {}]
           ELSE IF body = <<"\"a\":", "1">> THEN [ok |-> TRUE, value |-> {<<"a", 1>>}]
           ELSE [ok |-> FALSE, value |-> {}]
  ELSE [ok |-> FALSE, value |-> {}]

\* A partial tool-call fragment, as a chunk reports it.
Fragment(index, name, arguments) ==
  [index |-> index, name |-> name, arguments |-> arguments]

\* merge-by-index: the running concatenation of names and of argument strings
RECURSIVE mergePartialToolCalls(_, _)
mergePartialToolCalls(partialCalls, merged) ==
  IF partialCalls = <<>> THEN merged
  ELSE LET f == Head(partialCalls)
           old == IF f.index \in DOMAIN merged THEN merged[f.index]
                  ELSE [name |-> <<>>, arguments |-> <<>>]
           new == [name |-> old.name \o f.name, arguments |-> old.arguments \o f.arguments]
       IN  mergePartialToolCalls(Tail(partialCalls),
             [i \in DOMAIN merged \cup {f.index} |-> IF i = f.index THEN new ELSE merged[i]])

Min(S) == CHOOSE x \in S : \A y \in S : x <= y

RECURSIVE InIndexOrder(_, _)
InIndexOrder(merged, indices) ==
  IF indices = {} THEN <<>>
  ELSE LET i == Min(indices)
           parsed == ParseJSON(merged[i].arguments)
       IN  (IF parsed.ok
            THEN <<ToolCallEv([toolName |-> merged[i].name, input |-> parsed.value])>>
            ELSE <<>>) \o InIndexOrder(merged, indices \ {i})

\* the tool-call events of the reconciled fragments, ascending by index
processPartialToolCalls(partialCalls) ==
  LET merged == mergePartialToolCalls(partialCalls, <<>>)
  IN  InIndexOrder(merged, DOMAIN merged)

----------------------------------------------------------------------------
\* getMappedStream: what follows the loop

\* if (partialToolCalls.length > 0) toolCalls.forEach(enqueue)
ToolCallEvents(ptc) ==
  IF Len(ptc) > 0 THEN processPartialToolCalls(ptc) ELSE <<>>

CloseBlocks_SkipAfterTools(s, ptc) ==
  IF Len(ptc) > 0 THEN s
  ELSE LET s1 == IF s.reasoningId # 0
                 THEN [s EXCEPT !.out = Append(@, Ev("reasoning-end", s.reasoningId, "")),
                                !.reasoningId = 0]
                 ELSE s
       IN  IF s1.textId # 0
           THEN [s1 EXCEPT !.out = Append(@, Ev("text-end", s1.textId, "")), !.textId = 0]
           ELSE s1

\* Close any open blocks
CloseBlocks(s, ptc) ==
  LET s1 == IF s.reasoningId # 0
            THEN [s EXCEPT !.out = Append(@, Ev("reasoning-end", s.reasoningId, "")),
                           !.reasoningId = 0]
            ELSE s
  IN  IF s1.textId # 0
      THEN [s1 EXCEPT !.out = Append(@, Ev("text-end", s1.textId, "")), !.textId = 0]
      ELSE s1

FinishEvents_OnlyAfterText(s, u) ==
  IF \E i \in 1..Len(s.out) : s.out[i].type = "text-end"
  THEN <<FinishEv("stop", u)>> ELSE <<>>

\* controller.enqueue({finishReason: "stop", type: "finish", usage})
FinishEvents(s, u) == <<FinishEv("stop", u)>>

AfterLoop_ToolsAfterEnds ==
  LET s0 == [textId |-> textId, reasoningId |-> reasoningId, idCounter |-> idCounter,
             out |-> out]
      s1 == CloseBlocks(s0, partialToolCalls)
  IN  /\ out' = s1.out \o ToolCallEvents(partialToolCalls) \o FinishEvents(s1, usage)
      /\ textId' = s1.textId
      /\ reasoningId' = s1.reasoningId
      /\ pc' = "closed"
      /\ UNCHANGED <<usage, partialToolCalls, idCounter>>

\* the code after the loop: tool calls, open blocks, finish, close
AfterLoop ==
  LET s0 == [textId |-> textId, reasoningId |-> reasoningId, idCounter |-> idCounter,
             out |-> out \o ToolCallEvents(partialToolCalls)]
      s1 == CloseBlocks(s0, partialToolCalls)
  IN  /\ out' = s1.out \o FinishEvents(s1, usage)
      /\ textId' = s1.textId
      /\ reasoningId' = s1.reasoningId
      /\ pc' = "closed"
      /\ UNCHANGED <<usage, partialToolCalls, idCounter>>

----------------------------------------------------------------------------
\* getMappedStream: one action per event of the byte stream

\* if (!event.data) continue
SkipEmpty(event) ==
  /\ pc = "reading" /\ Len(consumed) < MaxChunks
  /\ event.kind = "empty"
  /\ consumed' = Append(consumed, event)
  /\ UNCHANGED <<pc, usage, partialToolCalls, textId, reasoningId, idCounter, out>>
  /\ UNCHANGED callVars
  /\ UNCHANGED <<pipeVars, twin, recommendation>>

Done_KeepsReading(event) ==
  /\ pc = "reading" /\ Len(consumed) < MaxChunks
  /\ event.kind = "done"
  /\ consumed' = Append(consumed, event)
  /\ UNCHANGED <<pc, usage, partialToolCalls, textId, reasoningId, idCounter, out>>
  /\ UNCHANGED callVars
  /\ UNCHANGED <<pipeVars, twin, recommendation>>

\* if (event.data === "[DONE]") break, and the code after the loop
Done(event) ==
  /\ pc = "reading" /\ Len(consumed) < MaxChunks
  /\ event.kind = "done"
  /\ consumed' = Append(consumed, event)
  /\ AfterLoop
  /\ UNCHANGED callVars
  /\ UNCHANGED <<pipeVars, twin, recommendation>>

\* JSON.parse(event.data) throws: start() rejects and the stream is errored
ParseError(event) ==
  /\ pc = "reading" /\ Len(consumed) < MaxChunks
  /\ event.kind = "bad"
  /\ consumed' = Append(consumed, event)
  /\ pc' = "errored"
  /\ UNCHANGED <<usage, partialToolCalls, textId, reasoningId, idCounter, out>>
  /\ UNCHANGED callVars
  /\ UNCHANGED <<pipeVars, twin, recommendation>>

\* one iteration of the loop on a parsed chunk
Chunk(event) ==
  /\ pc = "reading" /\ Len(consumed) < MaxChunks
  /\ event.kind = "json"
  /\ consumed' = Append(consumed, event)
  /\ usage' = UsageAfter(usage, event)
  /\ partialToolCalls' = FragmentsAfter(partialToolCalls, event)
  /\ LET s == ChunkEvents([textId |-> textId, reasoningId |-> reasoningId,
                           idCounter |-> idCounter, out |-> out], event)
     IN  /\ textId' = s.textId
         /\ reasoningId' = s.reasoningId
         /\ idCounter' = s.idCounter
         /\ out' = s.out
  /\ UNCHANGED pc
  /\ UNCHANGED callVars
  /\ UNCHANGED <<pipeVars, twin, recommendation>>

\* the byte stream ends without the [DONE] sentinel: the loop ends
EndOfInput ==
  /\ pc = "reading"
  /\ UNCHANGED consumed
  /\ AfterLoop
  /\ UNCHANGED callVars
  /\ UNCHANGED <<pipeVars, twin, recommendation>>

OnEvent(event) == SkipEmpty(event) \/ Done(event) \/ ParseError(event) \/ Chunk(event)

\* the closure of a getMappedStream invocation, as the record twin holds it
Closure(position) ==
  [pc |-> position, consumed |-> <<>>, usage |-> ZeroUsage, partialToolCalls |-> <<>>,
   textId |-> 0, reasoningId |-> 0, out |-> <<>>]

\* no second stream is mapped
NoTwin == twin = Closure("unstarted")

\* A number of the tool and the workflow: undefined, NaN, or a number.
Undefined == [kind |-> "undefined", n |-> 0]
NaN == [kind |-> "NaN", n |-> 0]
Num(n) == [kind |-> "number", n |-> n]

\* the params the workflow instance is created with; a property that the
\* object literal does not have reads as undefined
Params(minPrice, maxPrice, minPriceNum, maxPriceNum) ==
  [minPrice |-> minPrice, maxPrice |-> maxPrice,
   minPriceNum |-> minPriceNum, maxPriceNum |-> maxPriceNum]

\* the product recommendation tool has not been called
NoRecommendation ==
  recommendation = [tool |-> "idle", instances |-> 0, status |-> "none", output |-> <<>>,
                    minPrice |-> NoField, maxPrice |-> NoField,
                    pc |-> "idle", steps |-> <<>>,
                    payload |-> Params(Undefined, Undefined, Undefined, Undefined),
                    fetchedProducts |-> <<>>, filteredProducts |-> <<>>,
                    rankedIds |-> <<>>, topProducts |-> <<>>]

\* doStream has not built a stream to pipe into
NoPipe == ppc = "none" /\ forwarded = 0 /\ delivered = 0 /\ cancelled = FALSE

\* let usage = {0,0,0}; partialToolCalls = []; textId = reasoningId = null
MapperFresh ==
  /\ consumed = <<>>
  /\ usage = ZeroUsage
  /\ partialToolCalls = <<>>
  /\ textId = 0
  /\ reasoningId = 0
  /\ idCounter = 0
  /\ out = <<>>

----------------------------------------------------------------------------
\* convertToWorkersAIChatMessages
\* A string of a message is a sequence of tokens: a literal, the JSON text of
\* a value, or the JSON text of {name, parameters}.

Lit(str) == [k |-> "lit", a |-> str, b |-> ""]
NewLine == [k |-> "newline", a |-> "", b |-> ""]
\* JSON.stringify(value)
JsonOf(value) == [k |-> "json", a |-> value, b |-> ""]
\* JSON.stringify({name, parameters})
JsonOfCall(name, parameters) == [k |-> "json-call", a |-> name, b |-> parameters]

\* `functions.${name}:${index}`
FunctionId(name, index) == [prefix |-> "functions.", name |-> name, index |-> index]
\* an id the caller supplied (part.toolCallId)
CallerId(id) == [prefix |-> "", name |-> id, index |-> 0]
NoId == [prefix |-> "", name |-> "", index |-> 0]

\* Content parts of the canonical prompt; every part has the same fields.
Part(type) ==
  [type |-> type, text |-> <<>>, data |-> "", bytes |-> FALSE, mediaType |-> "",
   toolName |-> "", input |-> "", toolCallId |-> "", output |-> ""]

TextPart(text) == [Part("text") EXCEPT !.text = text]
ReasoningPart(text) == [Part("reasoning") EXCEPT !.text = text]
\* bytes: part.data instanceof Uint8Array
FilePart(data, bytes, mediaType) ==
  [Part("file") EXCEPT !.data = data, !.bytes = bytes, !.mediaType = mediaType]
ToolCallPart(id, name, input) ==
  [Part("tool-call") EXCEPT !.toolCallId = id, !.toolName = name, !.input = input]
ToolResultPart(name, output) ==
  [Part("tool-result") EXCEPT !.toolName = name, !.output = output]

\* A turn: the content of a system turn is its text, of the others their parts
Turn(role, text, content) == [role |-> role, text |-> text, content |-> content]

\* A backend message; every message has the same fields.
Message(role, content) ==
  [role |-> role, content |-> content, name |-> "", tool_call_id |-> NoId,
   hasToolCalls |-> FALSE, tool_calls |-> <<>>]

\* the user turn's part.type switch: the string a part maps to
UserPartString(part) ==
  CASE part.type = "text" -> part.text
    [] part.type = "file" -> <<>>
    [] OTHER -> <<>>   \* undefined, which join("\n") renders as the empty string

UserPartImages_NoMimeType(part) ==
  IF part.type = "file" /\ part.bytes
  THEN <<[image |-> part.data, mimeType |-> ""]>>
  ELSE <<>>
\* the user turn's part.type switch: what a part pushes on images
UserPartImages(part) ==
  IF part.type = "file" /\ part.bytes
  THEN <<[image |-> part.data, mimeType |-> part.mediaType]>>
  ELSE <<>>

\* Array.prototype.join("\n")
RECURSIVE JoinNewLine(_)
JoinNewLine(strs) ==
  IF strs = <<>> THEN <<>>
  ELSE IF Len(strs) = 1 THEN strs[1]
  ELSE strs[1] \o <<NewLine>> \o JoinNewLine(Tail(strs))

RECURSIVE UserImages(_)
UserImages(content) ==
  IF content = <<>> THEN <<>>
  ELSE UserPartImages(Head(content)) \o UserImages(Tail(content))

\* case "user"
UserMessage(content) ==
  Message("user", JoinNewLine([i \in 1..Len(content) |-> UserPartString(content[i])]))

RECURSIVE AssistantParts_AppendSummary(_, _)
AssistantParts_AppendSummary(content, acc) ==
  IF content = <<>> \/ acc.error # "" THEN acc
  ELSE LET part == Head(content)
       IN  AssistantParts_AppendSummary(Tail(content),
             CASE part.type = "text" -> [acc EXCEPT !.text = @ \o part.text]
               [] part.type = "reasoning" -> [acc EXCEPT !.text = @ \o part.text]
               [] part.type = "tool-call" ->
                    [acc EXCEPT !.text = @ \o <<JsonOfCall(part.toolName, part.input)>>,
                                !.toolCalls = Append(@,
                                   [function |-> [arguments |-> JsonOf(part.input),
                                                  name |-> part.toolName],
                                    id |-> CallerId(part.toolCallId), type |-> "function"])]
               [] OTHER -> [acc EXCEPT !.error = "Unsupported part type"])

\* case "assistant": the loop over the parts; acc = [text, toolCalls, error]
RECURSIVE AssistantParts(_, _)
AssistantParts(content, acc) ==
  IF content = <<>> \/ acc.error # "" THEN acc
  ELSE LET part == Head(content)
       IN  AssistantParts(Tail(content),
             CASE part.type = "text" -> [acc EXCEPT !.text = @ \o part.text]
               [] part.type = "reasoning" -> [acc EXCEPT !.text = @ \o part.text]
               [] part.type = "tool-call" ->
                    [acc EXCEPT !.text = <<JsonOfCall(part.toolName, part.input)>>,
                                !.toolCalls = Append(@,
                                   [function |-> [arguments |-> JsonOf(part.input),
                                                  name |-> part.toolName],
                                    id |-> CallerId(part.toolCallId), type |-> "function"])]
               [] OTHER -> [acc EXCEPT !.error = "Unsupported part type"])

AssistantMessage_KeepCallerId(text, toolCalls) ==
  [Message("assistant", text) EXCEPT
     !.hasToolCalls = Len(toolCalls) > 0,
     !.tool_calls = IF Len(toolCalls) > 0
                    THEN [i \in 1..Len(toolCalls) |->
                            [function |-> toolCalls[i].function,
                             id |-> toolCalls[i].id, type |-> "function"]]
                    ELSE <<>>]

\* case "assistant": messages.push({content: text, role, tool_calls})
AssistantMessage(text, toolCalls) ==
  [Message("assistant", text) EXCEPT
     !.hasToolCalls = Len(toolCalls) > 0,
     !.tool_calls = IF Len(toolCalls) > 0
                    THEN [i \in 1..Len(toolCalls) |->
                            [function |-> toolCalls[i].function,
                             id |-> FunctionId(toolCalls[i].function.name, i - 1),
                             type |-> "function"]]
                    ELSE <<>>]

ToolMessages_OneMessage(content) ==
  IF content = <<>> THEN <<>>
  ELSE <<[Message("tool", <<JsonOf(content[1].output)>>) EXCEPT
            !.name = content[1].toolName,
            !.tool_call_id = FunctionId(content[1].toolName, 0)]>>
\* case "tool": one message per entry of content.entries()
ToolMessages(content) ==
  [i \in 1..Len(content) |->
     [Message("tool", <<JsonOf(content[i].output)>>) EXCEPT
        !.name = content[i].toolName,
        !.tool_call_id = FunctionId(content[i].toolName, i - 1)]]

\* the loop over the turns; acc = [messages, images, error]
RECURSIVE ConvertTurns(_, _)
ConvertTurns(turns, acc) ==
  IF turns = <<>> \/ acc.error # "" THEN acc
  ELSE LET turn == Head(turns)
           parts == AssistantParts(turn.content, [text |-> <<>>, toolCalls |-> <<>>, error |-> ""])
       IN  ConvertTurns(Tail(turns),
             CASE turn.role = "system" ->
                    [acc EXCEPT !.messages = Append(@, Message("system", turn.text))]
               [] turn.role = "user" ->
                    [acc EXCEPT !.messages = Append(@, UserMessage(turn.content)),
                                !.images = @ \o UserImages(turn.content)]
               [] turn.role = "assistant" ->
                    IF parts.error # "" THEN [acc EXCEPT !.error = parts.error]
                    ELSE [acc EXCEPT !.messages =
                            Append(@, AssistantMessage(parts.text, parts.toolCalls))]
               [] turn.role = "tool" ->
                    [acc EXCEPT !.messages = @ \o ToolMessages(turn.content)]
               [] OTHER -> [acc EXCEPT !.error = "Unsupported role"])

\* returns {images, messages}, or throws (error # "")
convertToWorkersAIChatMessages(turns) ==
  ConvertTurns(turns, [messages |-> <<>>, images |-> <<>>, error |-> ""])

----------------------------------------------------------------------------
\* Values of a call

NoConv == [done |-> FALSE, messages |-> <<>>, images |-> <<>>, error |-> ""]

\* A non-streaming backend response. text is what processText reads
\* (response | choices[0].message.content), reasoning_content is
\* choices[0].message.reasoning_content.
Output(reasoning, text, tcs, u, finish) ==
  [reasoning_content |-> reasoning, text |-> text, tool_calls |-> tcs, usage |-> u,
   finish_reason |-> finish]

NoOutput == Output(NoField, NoField, <<>>, NoUsageField, NoField)

\* A content part of doGenerate's result; every part has the same fields.
ContentPart(type, text, tool) == [type |-> type, text |-> text, tool |-> tool]

NoResult == [content |-> <<>>, finishReason |-> "", usage |-> ZeroUsage, warnings |-> <<>>]

----------------------------------------------------------------------------
\* Backend payloads of the text specification: text, reasoning and usage

Usages == {UsageField(p, MaxTokens + 1 - p) : p \in 1..MaxTokens}

TextChunks ==
  {JsonChunk(NoUsageField, <<>>, r, z, c) :
     r \in {NoField, "a"}, z \in {NoField, "b"}, c \in {NoField, "c"}}
  \cup {JsonChunk(NoUsageField, <<>>, "", "", "")}
  \cup {JsonChunk(u, <<>>, NoField, NoField, NoField) : u \in Usages}

StreamEvents == {EmptyEvent, DoneEvent, BadEvent} \cup TextChunks

\* no call is under way: the mapper is driven on its own
NoCall ==
  /\ prompt = <<>>
  /\ toolsOn = FALSE
  /\ frequencyPenalty = NoField
  /\ presencePenalty = NoField
  /\ cpc = "none"
  /\ path = "none"
  /\ conv = NoConv
  /\ runCalls = <<>>
  /\ runOutput = NoOutput
  /\ genResult = NoResult
  /\ sout = <<>>
  /\ NoPipe /\ NoTwin /\ NoRecommendation

InitStream == pc = "reading" /\ MapperFresh /\ NoCall

Init == InitStream

Next == (\E event \in StreamEvents : OnEvent(event)) \/ EndOfInput

Spec == Init /\ [][Next]_vars

----------------------------------------------------------------------------
\* Backend payloads of the tool-call specification: fragments by index

Fragments ==
  UNION {{Fragment(i, <<"get">>, <<>>),
          Fragment(i, <<>>, <<"{", "\"a\":">>),
          Fragment(i, <<>>, <<"1", "}">>),
          Fragment(i, <<"set">>, <<"{", "}">>)} : i \in 0..MaxIndex}

ToolChunks ==
  {JsonChunk(NoUsageField, <<f>>, NoField, NoField, NoField) : f \in Fragments}
  \cup {JsonChunk(NoUsageField, <<Fragment(MaxIndex, <<"set">>, <<"{", "}">>),
                                  Fragment(0, <<"get">>, <<"{", "}">>)>>,
                  NoField, NoField, NoField)}
  \cup {JsonChunk(NoUsageField, <<>>, "a", "b", NoField)}

ToolStreamEvents == {EmptyEvent, DoneEvent, BadEvent} \cup ToolChunks

NextTools == (\E event \in ToolStreamEvents : OnEvent(event)) \/ EndOfInput

SpecTools == Init /\ [][NextTools]_vars

----------------------------------------------------------------------------
\* Reading an event sequence

Positions(evs, type) == {i \in 1..Len(evs) : evs[i].type = type}

Count(evs, type) == Cardinality(Positions(evs, type))

\* a block of `kind` with this id is open just before position i
OpenBefore(evs, kind, id, i) ==
  \E j \in 1..(i - 1) :
    /\ evs[j].type = kind \o "-start" /\ evs[j].id = id
    /\ \A k \in (j + 1)..(i - 1) : ~(evs[k].type = kind \o "-end" /\ evs[k].id = id)

DeltasFramed(evs, kind) ==
  \A i \in Positions(evs, kind \o "-delta") : OpenBefore(evs, kind, evs[i].id, i)

\* every end closes an open block, and no id is started or ended twice
EndsFramed(evs, kind) ==
  /\ \A i \in Positions(evs, kind \o "-end") : OpenBefore(evs, kind, evs[i].id, i)
  /\ \A i, j \in Positions(evs, kind \o "-end") : evs[i].id = evs[j].id => i = j

\* every start is closed by exactly one end of its id, before finish
StartsClosed(evs, kind) ==
  \A i \in Positions(evs, kind \o "-start") :
    /\ Cardinality({j \in Positions(evs, kind \o "-end") : evs[j].id = evs[i].id}) = 1
    /\ \E j \in Positions(evs, kind \o "-end") :
         /\ evs[j].id = evs[i].id /\ j > i
         /\ \A f \in Positions(evs, "finish") : j < f

\* C1: every text-delta and every reasoning-delta of getMappedStream's output
\* carries the id of a start of its kind that was emitted before it and is
\* not yet closed by an end; no delta precedes its start or follows its end.
C1_DeltasInsideOpenBlock == DeltasFramed(out, "text") /\ DeltasFramed(out, "reasoning")

C1_Witness ==
  /\ pc = "closed"
  /\ Count(out, "text-delta") >= 2
  /\ Count(out, "reasoning-delta") >= 1

\* C2: once the input is fully consumed (with or without [DONE], also when it
\* is empty) the output holds exactly one finish event and it is the last
\* event; before that no finish has been emitted, and nothing follows it.
C2_FinishOnceAndLast ==
  /\ pc = "closed" => /\ Count(out, "finish") = 1
                      /\ out[Len(out)].type = "finish"
  /\ pc # "closed" => Count(out, "finish") = 0

C2_Witness ==
  /\ pc = "closed"
  /\ consumed # <<>>
  /\ \A i \in 1..Len(consumed) : consumed[i].kind # "done"
  /\ Len(out) > 1

\* C3: every text-start / reasoning-start is followed, before finish, by
\* exactly one end of its kind and id; no end is emitted without a preceding
\* open start; at most one text-start and one reasoning-start are emitted,
\* so at most one block of each kind is ever open.
C3_StartsMatchedByEnds ==
  /\ EndsFramed(out, "text") /\ EndsFramed(out, "reasoning")
  /\ Count(out, "text-start") <= 1 /\ Count(out, "reasoning-start") <= 1
  /\ pc = "closed" => StartsClosed(out, "text") /\ StartsClosed(out, "reasoning")

C3_Witness ==
  /\ pc = "closed"
  /\ Count(out, "text-start") = 1 /\ Count(out, "reasoning-start") = 1
  /\ Count(out, "text-delta") >= 2

----------------------------------------------------------------------------
\* The usage the finish event should carry, read off the input history

UsageBearing(evs) == {i \in 1..Len(evs) : evs[i].kind = "json" /\ evs[i].usage.present}

Max(S) == CHOOSE x \in S : \A y \in S : x >= y

LastSeenUsage(evs) ==
  IF UsageBearing(evs) = {} THEN ZeroUsage
  ELSE LET u == evs[Max(UsageBearing(evs))].usage
       IN  [inputTokens |-> u.prompt_tokens, outputTokens |-> u.completion_tokens,
            totalTokens |-> u.prompt_tokens + u.completion_tokens]

RECURSIVE SumOfTotals(_)
SumOfTotals(evs) ==
  IF evs = <<>> THEN 0
  ELSE (IF Head(evs).kind = "json" /\ Head(evs).usage.present
        THEN Head(evs).usage.prompt_tokens + Head(evs).usage.completion_tokens
        ELSE 0) + SumOfTotals(Tail(evs))

\* C8: the usage of the finish event is the normalized usage of the last
\* chunk that carried a usage field (zero usage when none did); it is not the
\* sum of the usages seen, and the running snapshot always equals the usage
\* of the last usage-bearing chunk read so far.
C8_UsageLastWriteWins ==
  /\ usage = LastSeenUsage(consumed)
  /\ pc = "closed" =>
       /\ out[Len(out)].usage = LastSeenUsage(consumed)
       /\ Cardinality(UsageBearing(consumed)) >= 2 =>
            out[Len(out)].usage.totalTokens # SumOfTotals(consumed)

C8_Witness ==
  /\ pc = "closed"
  /\ \E i, j, k \in 1..Len(consumed) :
       /\ i < j /\ j < k
       /\ consumed[i].usage.present /\ consumed[j].usage.present
       /\ consumed[i].usage # consumed[j].usage
       /\ consumed[k].kind = "json" /\ ~consumed[k].usage.present
       /\ out[Len(out)].usage.inputTokens = consumed[j].usage.prompt_tokens

----------------------------------------------------------------------------
\* The tool calls the output should carry, read off the input history

RECURSIVE AllFragments(_)
AllFragments(evs) ==
  IF evs = <<>> THEN <<>>
  ELSE (IF Head(evs).kind = "json" THEN Head(evs).tool_calls ELSE <<>>)
       \o AllFragments(Tail(evs))

OfIndex(frags, i) == SelectSeq(frags, LAMBDA f : f.index = i)

RECURSIVE NamesOf(_)
NamesOf(frags) == IF frags = <<>> THEN <<>> ELSE Head(frags).name \o NamesOf(Tail(frags))

RECURSIVE ArgumentsOf(_)
ArgumentsOf(frags) ==
  IF frags = <<>> THEN <<>> ELSE Head(frags).arguments \o ArgumentsOf(Tail(frags))

SeenIndices(frags) == {frags[k].index : k \in 1..Len(frags)}

ValidIndices(frags) ==
  {i \in SeenIndices(frags) : ParseJSON(ArgumentsOf(OfIndex(frags, i))).ok}

RECURSIVE ExpectedToolCalls(_, _)
ExpectedToolCalls(frags, from) ==
  IF \A i \in ValidIndices(frags) : i < from THEN <<>>
  ELSE (IF from \in ValidIndices(frags)
        THEN <<ToolCallEv([toolName |-> NamesOf(OfIndex(frags, from)),
                           input |-> ParseJSON(ArgumentsOf(OfIndex(frags, from))).value])>>
        ELSE <<>>) \o ExpectedToolCalls(frags, from + 1)

ToolEvents(evs) == SelectSeq(evs, LAMBDA e : e.type = "tool-call")

RECURSIVE TextSignals(_)
TextSignals(evs) ==
  IF evs = <<>> THEN 0
  ELSE (IF Head(evs).kind = "json" /\ HasLength(Head(evs).response) THEN 1 ELSE 0)
       + (IF Head(evs).kind = "json" /\ HasLength(Head(evs).content) THEN 1 ELSE 0)
       + TextSignals(Tail(evs))

RECURSIVE ReasoningSignals(_)
ReasoningSignals(evs) ==
  IF evs = <<>> THEN 0
  ELSE (IF Head(evs).kind = "json" /\ HasLength(Head(evs).reasoning_content) THEN 1 ELSE 0)
       + ReasoningSignals(Tail(evs))

InvalidIndices(frags) == SeenIndices(frags) \ ValidIndices(frags)

----------------------------------------------------------------------------
\* The converter on its own: a prompt is drawn, then converted

\* sequences over S of length lo..hi
SeqsOf(S, lo, hi) == UNION {[1..n -> S] : n \in lo..hi}

AssistantPartValues ==
  {TextPart(<<Lit("a")>>), ToolCallPart("call_1", "get", "v1"),
   ToolCallPart("call_2", "set", "v2")}

ToolResultValues == {ToolResultPart("get", "o1"), ToolResultPart("set", "o2")}

ConvTurns ==
  {Turn("system", <<Lit("s")>>, <<>>),
   Turn("user", <<>>, <<TextPart(<<Lit("u")>>)>>),
   Turn("assistant", <<>>, <<ReasoningPart(<<Lit("r")>>), TextPart(<<Lit("a")>>)>>)}
  \cup {Turn("assistant", <<>>, c) : c \in SeqsOf(AssistantPartValues, 0, MaxParts)}
  \cup {Turn("tool", <<>>, c) : c \in SeqsOf(ToolResultValues, 0, MaxParts)}

ConvPrompts == SeqsOf(ConvTurns, 0, MaxTurns)

MapperUnstarted == pc = "unstarted" /\ MapperFresh

InitConv ==
  /\ MapperUnstarted
  /\ prompt \in ConvPrompts
  /\ toolsOn = FALSE
  /\ frequencyPenalty = NoField
  /\ presencePenalty = NoField
  /\ cpc = "convert"
  /\ path = "none"
  /\ conv = NoConv
  /\ runCalls = <<>>
  /\ runOutput = NoOutput
  /\ genResult = NoResult
  /\ sout = <<>>
  /\ NoPipe /\ NoTwin /\ NoRecommendation

\* const {messages, images} = convertToWorkersAIChatMessages(prompt)
Convert ==
  /\ cpc = "convert"
  /\ LET c == convertToWorkersAIChatMessages(prompt)
     IN  conv' = [done |-> TRUE, messages |-> c.messages, images |-> c.images,
                  error |-> c.error]
  /\ cpc' = "converted"
  /\ UNCHANGED <<inputVars, path, runCalls, runOutput, genResult, sout>>
  /\ UNCHANGED mapperVars
  /\ UNCHANGED <<pipeVars, twin, recommendation>>

NextConv == Convert

SpecConv == InitConv /\ [][NextConv]_vars

\* the number of backend messages the turns before turn k map to
RECURSIVE MessagesBefore(_, _)
MessagesBefore(turns, k) ==
  IF k <= 1 THEN 0
  ELSE MessagesBefore(turns, k - 1)
       + (IF turns[k - 1].role = "tool" THEN Len(turns[k - 1].content) ELSE 1)

ToolCallNames(content) ==
  LET calls == SelectSeq(content, LAMBDA part : part.type = "tool-call")
  IN  [i \in 1..Len(calls) |-> calls[i].toolName]

ToolResultNames(content) == [i \in 1..Len(content) |-> content[i].toolName]

\* turn k is an assistant turn with n >= 1 tool calls and turn k+1 a tool
\* turn with n results for the same tools in the same order
CallsThenResults(turns, k) ==
  /\ k + 1 <= Len(turns)
  /\ turns[k].role = "assistant" /\ turns[k + 1].role = "tool"
  /\ ToolCallNames(turns[k].content) # <<>>
  /\ ToolCallNames(turns[k].content) = ToolResultNames(turns[k + 1].content)

\* C10: for an assistant turn with n tool calls followed by a tool turn with
\* n results for the same tools in the same order, the tool_call_id of the
\* i-th tool message equals the id of the i-th entry of the assistant
\* message's tool_calls, and both are functions.<name>:<i> (i from 0).
C10_ToolCallIdSymmetry ==
  (conv.done /\ conv.error = "") =>
    \A k \in 1..Len(prompt) :
      CallsThenResults(prompt, k) =>
        LET at == MessagesBefore(prompt, k) + 1
            names == ToolCallNames(prompt[k].content)
        IN  /\ conv.messages[at].role = "assistant"
            /\ Len(conv.messages[at].tool_calls) = Len(names)
            /\ \A i \in 1..Len(names) :
                 /\ conv.messages[at + i].role = "tool"
                 /\ conv.messages[at + i].tool_call_id = conv.messages[at].tool_calls[i].id
                 /\ conv.messages[at + i].tool_call_id = FunctionId(names[i], i - 1)

C10_Witness ==
  /\ conv.done /\ conv.error = ""
  /\ \E k \in 1..Len(prompt) :
       /\ CallsThenResults(prompt, k)
       /\ Len(ToolCallNames(prompt[k].content)) = 2
       /\ ToolCallNames(prompt[k].content)[1] # ToolCallNames(prompt[k].content)[2]
       /\ conv.messages[MessagesBefore(prompt, k) + 3].tool_call_id = FunctionId("set", 1)

TurnRoles(turns) == [k \in 1..Len(turns) |-> turns[k].role]

\* the roles the messages of these turns should have, one per message
RECURSIVE ExpectedRoles(_)
ExpectedRoles(turns) ==
  IF turns = <<>> THEN <<>>
  ELSE (IF Head(turns).role = "tool"
        THEN [i \in 1..Len(Head(turns).content) |-> "tool"]
        ELSE <<Head(turns).role>>) \o ExpectedRoles(Tail(turns))

\* the turn roles read back from backend messages: every system, user and
\* assistant message is a turn, and a run of tool messages is one turn per
\* restart of the index in tool_call_id
RECURSIVE DeriveRoles(_)
DeriveRoles(messages) ==
  IF messages = <<>> THEN <<>>
  ELSE (IF Head(messages).role = "tool" /\ Head(messages).tool_call_id.index # 0
        THEN <<>> ELSE <<Head(messages).role>>) \o DeriveRoles(Tail(messages))

NoEmptyToolTurn(turns) ==
  \A k \in 1..Len(turns) : turns[k].role = "tool" => turns[k].content # <<>>

----------------------------------------------------------------------------
\* The converter on the parts of one turn: a turn is drawn, alone or next to
\* a system turn or a plain user turn, then the prompt is converted

\* a content part of a variant the converter does not know
UnknownPart == Part("image")

UserPartValues ==
  {TextPart(<<Lit("u")>>), TextPart(<<Lit("v")>>),
   FilePart("png1", TRUE, "image/png"),
   FilePart("http://x/y.jpg", FALSE, "image/jpeg"),
   UnknownPart}

PartsTurns ==
  {Turn("user", <<>>, c) : c \in SeqsOf(UserPartValues, 0, MaxUserParts)}
  \cup {Turn("assistant", <<>>, c) :
          c \in SeqsOf({TextPart(<<Lit("a")>>), UnknownPart}, 1, MaxUserParts)}
  \cup {Turn("function", <<>>, <<>>)}

PartsPrompts ==
  {<<t>> : t \in PartsTurns}
  \cup {<<Turn("system", <<Lit("s")>>, <<>>), t>> : t \in PartsTurns}
  \cup {<<t, Turn("user", <<>>, <<TextPart(<<Lit("w")>>)>>)>> : t \in PartsTurns}

InitParts ==
  /\ MapperUnstarted
  /\ prompt \in PartsPrompts
  /\ toolsOn = FALSE
  /\ frequencyPenalty = NoField
  /\ presencePenalty = NoField
  /\ cpc = "convert"
  /\ path = "none"
  /\ conv = NoConv
  /\ runCalls = <<>>
  /\ runOutput = NoOutput
  /\ genResult = NoResult
  /\ sout = <<>>
  /\ NoPipe /\ NoTwin /\ NoRecommendation

NextParts == Convert

SpecParts == InitParts /\ [][NextParts]_vars

\* the file parts of the user turns, in prompt order
RECURSIVE FileParts(_)
FileParts(turns) ==
  IF turns = <<>> THEN <<>>
  ELSE (IF Head(turns).role = "user"
        THEN SelectSeq(Head(turns).content, LAMBDA part : part.type = "file")
        ELSE <<>>) \o FileParts(Tail(turns))

\* every turn is a user or system turn and every user part a text or a file
TextAndFilesOnly(turns) ==
  \A k \in 1..Len(turns) :
    /\ turns[k].role \in {"system", "user"}
    /\ \A i \in 1..Len(turns[k].content) : turns[k].content[i].type \in {"text", "file"}

\* the texts of the parts in order, a file part standing for the empty string
TextsOf(content) ==
  [i \in 1..Len(content) |-> IF content[i].type = "text" THEN content[i].text ELSE <<>>]

UserContentsAsJoined ==
  \A k \in 1..Len(prompt) :
    prompt[k].role = "user" =>
      conv.messages[k].content = JoinNewLine(TextsOf(prompt[k].content))

\* C12 as stated: a prompt whose user turns hold exactly one file part gives
\* an images list of length 1 with the data and the mime-type of that part.
C12_OneFilePartOneImage ==
  (conv.done /\ TextAndFilesOnly(prompt) /\ Len(FileParts(prompt)) = 1) =>
    /\ Len(conv.images) = 1
    /\ conv.images[1].image = FileParts(prompt)[1].data
    /\ conv.images[1].mimeType = FileParts(prompt)[1].mediaType

\* C12 as amended: exactly one file part whose data is bytes gives an images
\* list of length 1 with the bytes and the mime-type of that part; one file
\* part whose data is not bytes, or no file part, gives an empty images list;
\* in every case the content of the user message is the texts of its parts
\* joined by newlines in order, a file part standing for the empty string.
C12_OneBytesFilePartOneImage ==
  (conv.done /\ TextAndFilesOnly(prompt) /\ Len(FileParts(prompt)) <= 1) =>
    /\ conv.error = ""
    /\ UserContentsAsJoined
    /\ IF Len(FileParts(prompt)) = 1 /\ FileParts(prompt)[1].bytes
       THEN /\ Len(conv.images) = 1
            /\ conv.images[1].image = FileParts(prompt)[1].data
            /\ conv.images[1].mimeType = FileParts(prompt)[1].mediaType
       ELSE conv.images = <<>>

C12_Witness ==
  /\ conv.done
  /\ prompt = <<Turn("user", <<>>, <<TextPart(<<Lit("u")>>),
                                   FilePart("png1", TRUE, "image/png")>>)>>
  /\ conv.images = <<[image |-> "png1", mimeType |-> "image/png"]>>
  /\ conv.messages[1].content = <<Lit("u"), NewLine>>

\* a turn of a role, or a user or assistant part of a variant, that the
\* converter does not know
HasUnrecognized(turns) ==
  \E k \in 1..Len(turns) :
    \/ turns[k].role \notin {"system", "user", "assistant", "tool"}
    \/ /\ turns[k].role = "user"
       /\ \E i \in 1..Len(turns[k].content) : turns[k].content[i].type \notin {"text", "file"}
    \/ /\ turns[k].role = "assistant"
       /\ \E i \in 1..Len(turns[k].content) :
            turns[k].content[i].type \notin {"text", "reasoning", "tool-call"}

\* C17: a prompt with an unrecognized turn role or an unrecognized content
\* part, in a user turn as well as in an assistant turn, makes the converter
\* throw; it never returns a message list for such a prompt.
C17_UnrecognizedIsFatal ==
  (conv.done /\ HasUnrecognized(prompt)) => conv.error # ""

----------------------------------------------------------------------------
\* WorkersAIChatLanguageModel: helpers of utils and the finish-reason map

\* the most recent message is a user message
lastMessageWasUser(messages) ==
  Len(messages) > 0 /\ messages[Len(messages)].role = "user"

\* the text of a non-streaming response, undefined (NoField) when absent
processText(o) == o.text

\* one tool-call part per entry of the response's tool-call list, the
\* arguments parsed back out of their JSON string
processToolCalls(o) ==
  [i \in 1..Len(o.tool_calls) |->
     ContentPart("tool-call", "",
                 [toolName |-> o.tool_calls[i].name,
                  input |-> ParseJSON(o.tool_calls[i].arguments).value])]

\* backend signal -> canonical finish reason
mapWorkersAIFinishReason(signal) ==
  CASE signal = "stop" -> "stop"
    [] signal = "length" -> "length"
    [] signal = "tool_calls" -> "tool-calls"
    [] OTHER -> "unknown"

----------------------------------------------------------------------------
\* WorkersAIChatLanguageModel.getArgs: the warnings it returns

Warning(setting) == [type |-> "unsupported-setting", setting |-> setting]

getArgs_Silent(frequency, presence) == <<>>

\* if (frequencyPenalty != null) warnings.push; if (presencePenalty != null) warnings.push
getArgs(frequency, presence) ==
  (IF frequency # NoField THEN <<Warning("frequencyPenalty")>> ELSE <<>>)
  \o (IF presence # NoField THEN <<Warning("presencePenalty")>> ELSE <<>>)

----------------------------------------------------------------------------
\* WorkersAIChatLanguageModel.doGenerate

\* if (images.length !== 0 && images.length !== 1) throw
doGenerate_MultipleImages(images) == Len(images) # 0 /\ Len(images) # 1

doGenerate_content_TextOmitted(o) ==
  (IF HasLength(o.reasoning_content)
   THEN <<ContentPart("reasoning", o.reasoning_content, NoTool)>> ELSE <<>>)
  \o (IF processText(o) = NoField THEN <<>>
      ELSE <<ContentPart("text", processText(o), NoTool)>>)
  \o processToolCalls(o)

\* content: [...(reasoningContent ? [reasoning] : []), text, ...processToolCalls(output)]
doGenerate_content(o) ==
  (IF HasLength(o.reasoning_content)
   THEN <<ContentPart("reasoning", o.reasoning_content, NoTool)>> ELSE <<>>)
  \o <<ContentPart("text", IF processText(o) = NoField THEN "" ELSE processText(o), NoTool)>>
  \o processToolCalls(o)

\* what doGenerate returns
doGenerate_result(o, warnings) ==
  [content |-> doGenerate_content(o),
   finishReason |-> mapWorkersAIFinishReason(o.finish_reason),
   usage |-> mapWorkersAIUsage(o),
   warnings |-> warnings]

\* doGenerate from its first line to `await this.config.binding.run(...)`:
\* it throws, or issues the one non-streaming request and waits at `await`.
doGenerate_UntilRun(awaiting) ==
  LET c == convertToWorkersAIChatMessages(prompt)
  IN  /\ conv' = [done |-> TRUE, messages |-> c.messages, images |-> c.images,
                  error |-> c.error]
      /\ IF c.error # "" \/ doGenerate_MultipleImages(c.images)
         THEN cpc' = "thrown" /\ UNCHANGED runCalls
         ELSE /\ cpc' = awaiting
              /\ runCalls' = Append(runCalls, [stream |-> FALSE, image |-> Len(c.images) = 1])

\* a call of doGenerate, up to its await
DoGenerateCall ==
  /\ cpc = "start"
  /\ path' = "generate"
  /\ doGenerate_UntilRun("generate-await")
  /\ UNCHANGED <<inputVars, runOutput, genResult, sout>>
  /\ UNCHANGED mapperVars
  /\ UNCHANGED <<pipeVars, twin, recommendation>>

\* binding.run resolves: doGenerate returns its result
DoGenerateReturn(o) ==
  /\ cpc = "generate-await"
  /\ runOutput' = o
  /\ genResult' = doGenerate_result(o, getArgs(frequencyPenalty, presencePenalty))
  /\ cpc' = "returned"
  /\ UNCHANGED <<inputVars, path, conv, runCalls, sout>>
  /\ UNCHANGED mapperVars
  /\ UNCHANGED <<pipeVars, twin, recommendation>>

----------------------------------------------------------------------------
\* WorkersAIChatLanguageModel.doStream, simulated branch: start(controller)
\* works on s = [textId, reasoningId, idCounter, out]

\* if (contentPart.type === "text")
SimText(s, part) ==
  IF part.type = "text"
  THEN LET s1 == IF s.textId = 0
                 THEN [s EXCEPT !.idCounter = @ + 1, !.textId = s.idCounter + 1,
                                !.out = Append(@, Ev("text-start", s.idCounter + 1, ""))]
                 ELSE s
       IN  [s1 EXCEPT !.out = Append(@, Ev("text-delta", s1.textId, part.text))]
  ELSE s

\* if (contentPart.type === "tool-call") controller.enqueue(contentPart)
SimToolCall(s, part) ==
  IF part.type = "tool-call" THEN [s EXCEPT !.out = Append(@, ToolCallEv(part.tool))] ELSE s

\* if (contentPart.type === "reasoning"): the delta's id is generateId()
SimReasoning(s, part) ==
  IF part.type = "reasoning"
  THEN LET s1 == IF s.reasoningId = 0
                 THEN [s EXCEPT !.idCounter = @ + 1, !.reasoningId = s.idCounter + 1,
                                !.out = Append(@, Ev("reasoning-start", s.idCounter + 1, ""))]
                 ELSE s
       IN  [s1 EXCEPT !.idCounter = @ + 1,
                      !.out = Append(@, Ev("reasoning-delta", s1.idCounter + 1, part.text))]
  ELSE s

\* for (const contentPart of response.content)
RECURSIVE SimParts(_, _)
SimParts(s, content) ==
  IF content = <<>> THEN s
  ELSE SimParts(SimReasoning(SimToolCall(SimText(s, Head(content)), Head(content)),
                             Head(content)),
                Tail(content))

SimClose_TextFirst(s) ==
  LET s1 == IF s.textId # 0
            THEN [s EXCEPT !.out = Append(@, Ev("text-end", s.textId, "")), !.textId = 0]
            ELSE s
  IN  IF s1.reasoningId # 0
      THEN [s1 EXCEPT !.out = Append(@, Ev("reasoning-end", s1.reasoningId, "")),
                      !.reasoningId = 0]
      ELSE s1

\* if (reasoningId) reasoning-end; if (textId) text-end
SimClose(s) ==
  LET s1 == IF s.reasoningId # 0
            THEN [s EXCEPT !.out = Append(@, Ev("reasoning-end", s.reasoningId, "")),
                           !.reasoningId = 0]
            ELSE s
  IN  IF s1.textId # 0
      THEN [s1 EXCEPT !.out = Append(@, Ev("text-end", s1.textId, "")), !.textId = 0]
      ELSE s1

\* the finish event: mapWorkersAIFinishReason is handed doGenerate's result,
\* an object that carries no backend finish signal
SimFinish(s, response) ==
  [s EXCEPT !.out = Append(@, FinishEv(mapWorkersAIFinishReason(NoField), response.usage))]

\* start(controller) of the simulated stream
SimulatedStream(response, warnings, ids) ==
  SimFinish(SimClose(SimParts([textId |-> 0, reasoningId |-> 0, idCounter |-> ids,
                               out |-> <<StreamStartEv(warnings)>>],
                              response.content)),
            response)

----------------------------------------------------------------------------
\* WorkersAIChatLanguageModel.doStream

doStream_MultipleImages_Unchecked(images) == FALSE

\* if (images.length !== 0 && images.length !== 1) throw
doStream_MultipleImages(images) == Len(images) # 0 /\ Len(images) # 1

\* a call of doStream, up to the await of its branch
DoStreamCall ==
  /\ cpc = "start"
  /\ LET c == convertToWorkersAIChatMessages(prompt)
     IN  IF c.error # ""
         THEN /\ path' = "stream"
              /\ conv' = [done |-> TRUE, messages |-> c.messages, images |-> c.images,
                          error |-> c.error]
              /\ cpc' = "thrown"
              /\ UNCHANGED runCalls
         ELSE IF toolsOn /\ lastMessageWasUser(c.messages)
         THEN /\ path' = "simulated"
              /\ doGenerate_UntilRun("simulated-await")
         ELSE /\ path' = "real"
              /\ conv' = [done |-> TRUE, messages |-> c.messages, images |-> c.images,
                          error |-> c.error]
              /\ IF doStream_MultipleImages(c.images)
                 THEN cpc' = "thrown" /\ UNCHANGED runCalls
                 ELSE /\ cpc' = "real-await"
                      /\ runCalls' = Append(runCalls,
                                            [stream |-> TRUE, image |-> Len(c.images) = 1])
  /\ UNCHANGED <<inputVars, runOutput, genResult, sout>>
  /\ UNCHANGED mapperVars
  /\ UNCHANGED <<pipeVars, twin, recommendation>>

\* binding.run resolves in the simulated branch: doGenerate returns and the
\* stream's start(controller) enqueues every event and closes
DoStreamSimulated(o) ==
  /\ cpc = "simulated-await"
  /\ runOutput' = o
  /\ genResult' = doGenerate_result(o, getArgs(frequencyPenalty, presencePenalty))
  /\ LET s == SimulatedStream(doGenerate_result(o, getArgs(frequencyPenalty, presencePenalty)),
                              getArgs(frequencyPenalty, presencePenalty), idCounter)
     IN  sout' = s.out /\ idCounter' = s.idCounter
  /\ cpc' = "returned"
  /\ UNCHANGED <<inputVars, path, conv, runCalls>>
  /\ UNCHANGED <<pc, consumed, usage, partialToolCalls, textId, reasoningId, out>>
  /\ UNCHANGED <<pipeVars, twin, recommendation>>

\* binding.run resolves in the streaming branch: stream-start is enqueued,
\* getMappedStream starts reading the response (its reads are the actions of
\* OnEvent and EndOfInput) and push() issues its first read
DoStreamReal ==
  /\ cpc = "real-await"
  /\ sout' = <<StreamStartEv(getArgs(frequencyPenalty, presencePenalty))>>
  /\ pc' = "reading"
  /\ ppc' = "running"
  /\ cpc' = "piping"
  /\ UNCHANGED <<inputVars, path, conv, runCalls, runOutput, genResult>>
  /\ UNCHANGED <<consumed, usage, partialToolCalls, textId, reasoningId, idCounter, out>>
  /\ UNCHANGED <<forwarded, delivered, cancelled, twin, recommendation>>

BackendFails_Retry ==
  /\ cpc \in {"generate-await", "simulated-await", "real-await"}
  /\ Len(runCalls) < 2
  /\ runCalls' = Append(runCalls, runCalls[1])
  /\ UNCHANGED <<inputVars, cpc, path, conv, runOutput, genResult, sout>>
  /\ UNCHANGED mapperVars
  /\ UNCHANGED <<pipeVars, twin, recommendation>>

\* binding.run rejects: the call fails
BackendFails ==
  /\ cpc \in {"generate-await", "simulated-await", "real-await"}
  /\ cpc' = "thrown"
  /\ UNCHANGED <<inputVars, path, conv, runCalls, runOutput, genResult, sout>>
  /\ UNCHANGED mapperVars
  /\ UNCHANGED <<pipeVars, twin, recommendation>>

----------------------------------------------------------------------------
\* The calls: a prompt and the tools setting are drawn, then one method runs

CallTurns ==
  {Turn("system", <<Lit("s")>>, <<>>),
   Turn("user", <<>>, <<TextPart(<<Lit("u")>>)>>),
   Turn("user", <<>>, <<TextPart(<<Lit("u")>>), FilePart("png1", TRUE, "image/png")>>),
   Turn("user", <<>>, <<FilePart("png1", TRUE, "image/png"),
                        FilePart("png2", TRUE, "image/png")>>),
   Turn("user", <<>>, <<FilePart("http://x/y.png", FALSE, "image/png")>>),
   Turn("assistant", <<>>, <<TextPart(<<Lit("a")>>)>>),
   Turn("tool", <<>>, <<ToolResultPart("get", "o1")>>)}

CallPrompts == SeqsOf(CallTurns, 0, MaxCallTurns)

BackendToolCall(name, arguments) == [name |-> name, arguments |-> arguments]

Outputs ==
  {Output(r, t, tcs, f[1], f[2]) :
     r \in {NoField, "", "r"},
     t \in {NoField, "t"},
     tcs \in {<<>>,
              <<BackendToolCall(<<"get">>, <<"{", "\"a\":", "1", "}">>)>>,
              <<BackendToolCall(<<"get">>, <<"{", "}">>),
                BackendToolCall(<<"set">>, <<"{", "\"a\":", "1", "}">>)>>},
     f \in {<<NoUsageField, "stop">>, <<UsageField(1, MaxTokens), "tool_calls">>}}

\* a penalty setting: not set, or a number
Penalties == {NoField, "0"}

InitCall ==
  /\ MapperUnstarted
  /\ prompt \in CallPrompts
  /\ toolsOn \in BOOLEAN
  /\ frequencyPenalty \in Penalties
  /\ presencePenalty \in Penalties
  /\ cpc = "start"
  /\ path = "none"
  /\ conv = NoConv
  /\ runCalls = <<>>
  /\ runOutput = NoOutput
  /\ genResult = NoResult
  /\ sout = <<>>
  /\ NoPipe /\ NoTwin /\ NoRecommendation

NextCall ==
  \/ DoGenerateCall
  \/ \E o \in Outputs : DoGenerateReturn(o)
  \/ DoStreamCall
  \/ \E o \in Outputs : DoStreamSimulated(o)
  \/ DoStreamReal
  \/ BackendFails

SpecCall == InitCall /\ [][NextCall]_vars

----------------------------------------------------------------------------
\* Claims about the calls

\* the file parts of the prompt's user turns that hold bytes
RECURSIVE BytesFileParts(_)
BytesFileParts(turns) ==
  IF turns = <<>> THEN 0
  ELSE (IF Head(turns).role = "user"
        THEN Len(SelectSeq(Head(turns).content,
                           LAMBDA part : part.type = "file" /\ part.bytes))
        ELSE 0) + BytesFileParts(Tail(turns))

\* C4: the simulated stream keeps the framing discipline: every delta carries
\* the id of the open start of its kind and every start has exactly one end
\* of its id before finish.
C4_SimulatedStreamFramed ==
  (path = "simulated" /\ cpc = "returned") =>
    /\ DeltasFramed(sout, "text") /\ DeltasFramed(sout, "reasoning")
    /\ EndsFramed(sout, "text") /\ EndsFramed(sout, "reasoning")
    /\ StartsClosed(sout, "text") /\ StartsClosed(sout, "reasoning")

\* an event without its generated id
Stripped(type, delta, tool) == [type |-> type, delta |-> delta, tool |-> tool]

Strip(evs) == [i \in 1..Len(evs) |-> Stripped(evs[i].type, evs[i].delta, evs[i].tool)]

\* a content part as events: its start and delta, or the tool call itself
PartOpening(part) ==
  IF part.type = "tool-call" THEN <<Stripped("tool-call", "", part.tool)>>
  ELSE <<Stripped(part.type \o "-start", "", NoTool),
         Stripped(part.type \o "-delta", part.text, NoTool)>>

PartEnding(part) ==
  IF part.type = "tool-call" THEN <<>> ELSE <<Stripped(part.type \o "-end", "", NoTool)>>

\* every part wrapped in its own start/delta/end framing
RECURSIVE WrapEach(_)
WrapEach(content) ==
  IF content = <<>> THEN <<>>
  ELSE PartOpening(Head(content)) \o PartEnding(Head(content)) \o WrapEach(Tail(content))

RECURSIVE Openings(_)
Openings(content) ==
  IF content = <<>> THEN <<>> ELSE PartOpening(Head(content)) \o Openings(Tail(content))

HasPart(content, type) == \E i \in 1..Len(content) : content[i].type = type

\* every part opened in order, the ends after the last part: reasoning, then text
WrapDeferred(content) ==
  Openings(content)
  \o (IF HasPart(content, "reasoning") THEN <<Stripped("reasoning-end", "", NoTool)>> ELSE <<>>)
  \o (IF HasPart(content, "text") THEN <<Stripped("text-end", "", NoTool)>> ELSE <<>>)

OneOfEach(content) ==
  /\ Len(content) = 3
  /\ HasPart(content, "reasoning") /\ HasPart(content, "text") /\ HasPart(content, "tool-call")

\* the events between stream-start and finish
Body(evs) == SubSeq(Strip(evs), 2, Len(evs) - 1)

\* C5 as stated: for a response with one reasoning, one text and one tool-call
\* part the simulated stream, ids stripped, is the content parts of doGenerate
\* in order, each wrapped in its own start/delta/end framing.
C5_EachPartFramedOnItsOwn ==
  (path = "simulated" /\ cpc = "returned" /\ OneOfEach(genResult.content)) =>
    Body(sout) = WrapEach(genResult.content)

\* C5 as amended: the simulated stream, ids stripped, is stream-start, then
\* for the content parts of doGenerate in order the start and the delta of
\* each reasoning/text part and each tool call as one event, then
\* reasoning-end, then text-end (the ends follow the last part), then finish.
C5_PartsInOrderEndsDeferred ==
  (path = "simulated" /\ cpc = "returned") =>
    /\ Len(sout) >= 2
    /\ sout[1].type = "stream-start"
    /\ sout[Len(sout)].type = "finish"
    /\ Body(sout) = WrapDeferred(genResult.content)

C5_Witness ==
  /\ path = "simulated" /\ cpc = "returned"
  /\ OneOfEach(genResult.content)
  /\ [i \in 1..Len(sout) |-> sout[i].type] =
       <<"stream-start", "reasoning-start", "reasoning-delta", "text-start", "text-delta",
         "tool-call", "reasoning-end", "text-end", "finish">>

\* the content of doGenerate's result read against the backend response o:
\* r reasoning parts (0 or 1) first, then one text part, then the tool calls
ContentInFixedOrder(content, o, r) ==
  /\ Len(content) = r + 1 + Len(o.tool_calls)
  /\ r = 1 => content[1] = ContentPart("reasoning", o.reasoning_content, NoTool)
  /\ content[r + 1] = ContentPart("text", IF o.text = NoField THEN "" ELSE o.text, NoTool)
  /\ \A i \in 1..Len(o.tool_calls) :
       /\ content[r + 1 + i].type = "tool-call"
       /\ content[r + 1 + i].tool.toolName = o.tool_calls[i].name
  /\ \A i, j \in 1..Len(content) :
       (content[i].type = "tool-call" /\ i < j) => content[j].type = "tool-call"

\* C13 as stated: the content of doGenerate's result is a reasoning part if
\* and only if the response carries reasoning_content, then exactly one text
\* part (the empty string when the response has no text), then the tool calls.
C13_ReasoningIffCarried ==
  cpc = "returned" =>
    ContentInFixedOrder(genResult.content, runOutput,
                        IF runOutput.reasoning_content # NoField THEN 1 ELSE 0)

\* C13 as amended: the content of doGenerate's result is a reasoning part if
\* and only if the response's reasoning_content is a non-empty string, then
\* exactly one text part (the empty string when the response has no text),
\* then the tool calls of the response in order; nothing but tool calls
\* follows a tool call.
C13_ReasoningIffNonEmpty ==
  cpc = "returned" =>
    ContentInFixedOrder(genResult.content, runOutput,
                        IF HasLength(runOutput.reasoning_content) THEN 1 ELSE 0)

C13_Witness ==
  /\ cpc = "returned" /\ path = "generate"
  /\ runOutput.text = NoField
  /\ [i \in 1..Len(genResult.content) |-> genResult.content[i].type] =
       <<"reasoning", "text", "tool-call", "tool-call">>
  /\ genResult.content[2].text = ""

\* the most recent turn of the prompt is a user turn
LastTurnIsUser == Len(prompt) > 0 /\ prompt[Len(prompt)].role = "user"

\* the call threw before it reached the backend
RejectedBeforeRun == cpc = "thrown" /\ runCalls = <<>>

WarningsMatch(warnings) ==
  /\ Len(warnings) = (IF frequencyPenalty # NoField THEN 1 ELSE 0)
                     + (IF presencePenalty # NoField THEN 1 ELSE 0)
  /\ \A setting \in {"frequencyPenalty", "presencePenalty"} :
       Cardinality({i \in 1..Len(warnings) : warnings[i] = Warning(setting)})
         = (IF (IF setting = "frequencyPenalty" THEN frequencyPenalty ELSE presencePenalty)
                 # NoField
            THEN 1 ELSE 0)

\* C19: a penalty setting never fails the call (a call that throws before
\* the backend does so for its prompt); the warnings of doGenerate's result
\* and of the stream-start event of doStream, on both paths, hold exactly
\* one unsupported-setting warning per penalty that was set and no other.
C19_PenaltiesWarnOnly ==
  /\ RejectedBeforeRun => (conv.error # "" \/ Len(conv.images) >= 2)
  /\ (cpc = "returned" /\ path \in {"generate", "simulated"}) => WarningsMatch(genResult.warnings)
  /\ (path = "simulated" /\ cpc = "returned") \/ (path = "real" /\ cpc = "piping") =>
       /\ sout[1].type = "stream-start"
       /\ WarningsMatch(sout[1].warnings)
       /\ \A i \in 2..Len(sout) : sout[i].type # "stream-start"

C19_Witness ==
  /\ path = "simulated" /\ cpc = "returned"
  /\ frequencyPenalty # NoField /\ presencePenalty # NoField
  /\ sout[1].warnings = <<Warning("frequencyPenalty"), Warning("presencePenalty")>>

\* C20: the finish event of the simulated stream carries the finish reason
\* and the usage of the result the one doGenerate call returned.
C20_FinishOfBlockingCall ==
  (path = "simulated" /\ cpc = "returned") =>
    /\ sout[Len(sout)].type = "finish"
    /\ sout[Len(sout)].finishReason = genResult.finishReason
    /\ sout[Len(sout)].usage = genResult.usage

\* C9: a prompt with two or more extracted images never reaches the backend:
\* whatever method and branch runs, binding.run is not invoked and the call
\* has thrown.
C9_MultipleImagesRejectedBeforeRun ==
  BytesFileParts(prompt) >= 2 =>
    /\ runCalls = <<>>
    /\ cpc \in {"start", "thrown"}

C9_Witness ==
  /\ BytesFileParts(prompt) >= 2
  /\ Len(prompt) = 2 /\ BytesFileParts(<<prompt[1]>>) = 1
  /\ path = "simulated" /\ cpc = "thrown"
  /\ Len(conv.images) = 2

----------------------------------------------------------------------------
\* WorkersAIChatLanguageModel.doStream, streaming branch: push() pipes the
\* mapped stream into the returned stream, and a consumer reads that stream

Forward_Twice ==
  /\ ppc = "running" /\ pc # "errored"
  /\ forwarded < Len(out)
  /\ forwarded' = forwarded + 1
  /\ IF cancelled
     THEN ppc' = "failed" /\ UNCHANGED sout
     ELSE sout' = sout \o <<out[forwarded + 1], out[forwarded + 1]>> /\ UNCHANGED ppc
  /\ UNCHANGED <<inputVars, cpc, path, conv, runCalls, runOutput, genResult>>
  /\ UNCHANGED <<mapperVars, delivered, cancelled, twin, recommendation>>

\* reader.read() resolves with a value: controller.enqueue(value); push().
\* On a stream the consumer cancelled, enqueue throws inside the callback.
Forward ==
  /\ ppc = "running" /\ pc # "errored"
  /\ forwarded < Len(out)
  /\ forwarded' = forwarded + 1
  /\ IF cancelled
     THEN ppc' = "failed" /\ UNCHANGED sout
     ELSE sout' = Append(sout, out[forwarded + 1]) /\ UNCHANGED ppc
  /\ UNCHANGED <<inputVars, cpc, path, conv, runCalls, runOutput, genResult>>
  /\ UNCHANGED <<mapperVars, delivered, cancelled, twin, recommendation>>

\* reader.read() resolves with done: controller.close(); return
PipeClose ==
  /\ ppc = "running" /\ pc = "closed"
  /\ forwarded = Len(out)
  /\ ppc' = IF cancelled THEN "failed" ELSE "closed"
  /\ UNCHANGED <<callVars, mapperVars, forwarded, delivered, cancelled, twin, recommendation>>

\* the mapped stream is errored: reader.read() rejects, and then() was given
\* no handler for it; the returned stream is neither closed nor errored
PipeReadRejects ==
  /\ ppc = "running" /\ pc = "errored"
  /\ ppc' = "failed"
  /\ UNCHANGED <<callVars, mapperVars, forwarded, delivered, cancelled, twin, recommendation>>

\* the consumer reads one event off the returned stream
Deliver ==
  /\ cpc = "piping" /\ ~cancelled
  /\ delivered < Len(sout)
  /\ delivered' = delivered + 1
  /\ UNCHANGED <<callVars, mapperVars, ppc, forwarded, cancelled, twin, recommendation>>

\* the consumer cancels the returned stream before it has read finish; the
\* stream was built without a cancel(), so nothing reaches the mapped stream
ConsumerCancel ==
  /\ cpc = "piping" /\ ~cancelled
  /\ \A i \in 1..delivered : sout[i].type # "finish"
  /\ cancelled' = TRUE
  /\ UNCHANGED <<callVars, mapperVars, ppc, forwarded, delivered, twin, recommendation>>

PipePrompts ==
  {<<Turn("user", <<>>, <<TextPart(<<Lit("u")>>)>>)>>,
   <<Turn("system", <<Lit("s")>>, <<>>), Turn("user", <<>>, <<TextPart(<<Lit("u")>>)>>)>>}

PipeEvents ==
  {EmptyEvent, DoneEvent, BadEvent,
   JsonChunk(NoUsageField, <<>>, "a", NoField, NoField),
   JsonChunk(UsageField(1, MaxTokens), <<>>, NoField, "b", "c")}

\* what binding.run resolves to when doStream takes its simulated branch
PipeOutputs ==
  {Output(NoField, "t", <<>>, NoUsageField, "stop"),
   Output("r", "t", <<BackendToolCall(<<"get">>, <<"{", "}">>)>>,
          UsageField(1, MaxTokens), "tool_calls")}

InitPipe ==
  /\ MapperUnstarted
  /\ prompt \in PipePrompts
  /\ toolsOn \in BOOLEAN
  /\ frequencyPenalty = NoField
  /\ presencePenalty = NoField
  /\ cpc = "start"
  /\ path = "none"
  /\ conv = NoConv
  /\ runCalls = <<>>
  /\ runOutput = NoOutput
  /\ genResult = NoResult
  /\ sout = <<>>
  /\ NoPipe /\ NoTwin /\ NoRecommendation

NextPipe ==
  \/ DoStreamCall
  \/ \E o \in PipeOutputs : DoStreamSimulated(o)
  \/ DoStreamReal
  \/ \E event \in PipeEvents : OnEvent(event)
  \/ EndOfInput
  \/ Forward
  \/ PipeClose
  \/ PipeReadRejects
  \/ Deliver
  \/ ConsumerCancel

SpecPipe == InitPipe /\ [][NextPipe]_vars

\* The same with the scheduling the event loop gives: a promise callback that
\* can run does run, and a byte stream that has ended is seen to have ended.
SpecPipeFair ==
  /\ InitPipe /\ [][NextPipe]_vars
  /\ WF_vars(DoStreamCall) /\ WF_vars(DoStreamReal)
  /\ WF_vars(EndOfInput)
  /\ WF_vars(Forward) /\ WF_vars(PipeClose) /\ WF_vars(PipeReadRejects)

\* the state of the stream doStream returned: its controller is closed by
\* push() on done and is given no error anywhere in doStream
OutputStream ==
  IF cpc # "piping" THEN "none"
  ELSE IF cancelled THEN "cancelled"
  ELSE IF ppc = "closed" THEN "closed"
  ELSE "readable"

\* C21: once the mapped stream has met a fatal condition (a payload that is
\* not JSON), the stream doStream returned eventually errors, unless its
\* consumer cancelled it; it does not stay readable for ever.
C21_FatalErrorsOutput ==
  (cpc = "piping" /\ pc = "errored") ~> (OutputStream \in {"errored", "cancelled"})

\* C14: the chunks read from the backend stream are bounded by the events
\* the consumer has read plus a fixed hand-off, whatever hand-off below the
\* length of the backend stream is allowed: the whole stream is never read
\* while the consumer has read nothing.
C14_ReadsFollowPulls ==
  cpc = "piping" => Len(consumed) <= delivered + (MaxChunks - 1)

\* C15: once the consumer has cancelled the returned stream no further
\* chunk is read from the backend stream and no further event is produced.
C15_NoWorkAfterCancel ==
  [][cancelled => (consumed' = consumed /\ out' = out)]_vars

----------------------------------------------------------------------------
\* Two getMappedStream invocations and a simulated doStream at once: each
\* invocation has its own closure; generateId is the one thing they share

\* one iteration of the loop of the invocation whose closure is m
TwinChunkStep(m, ids, event) ==
  LET s == ChunkEvents([textId |-> m.textId, reasoningId |-> m.reasoningId,
                        idCounter |-> ids, out |-> m.out], event)
  IN  [closure |-> [m EXCEPT !.consumed = Append(@, event),
                             !.usage = UsageAfter(@, event),
                             !.partialToolCalls = FragmentsAfter(@, event),
                             !.textId = s.textId,
                             !.reasoningId = s.reasoningId,
                             !.out = s.out],
       idCounter |-> s.idCounter]

\* the code after the loop of the invocation whose closure is m
TwinAfterLoop(m) ==
  LET s0 == [textId |-> m.textId, reasoningId |-> m.reasoningId, idCounter |-> 0,
             out |-> m.out \o ToolCallEvents(m.partialToolCalls)]
      s1 == CloseBlocks(s0, m.partialToolCalls)
  IN  [m EXCEPT !.out = s1.out \o FinishEvents(s1, m.usage),
                !.textId = s1.textId,
                !.reasoningId = s1.reasoningId,
                !.pc = "closed"]

TwinChunk_SharedIds(event) ==
  /\ twin.pc = "reading" /\ Len(twin.consumed) < MaxChunks
  /\ event.kind = "json"
  /\ LET r == TwinChunkStep([twin EXCEPT !.textId = textId, !.reasoningId = reasoningId],
                            idCounter, event)
     IN  twin' = r.closure /\ idCounter' = r.idCounter
  /\ UNCHANGED <<pc, consumed, usage, partialToolCalls, textId, reasoningId, out>>
  /\ UNCHANGED <<callVars, pipeVars, recommendation>>

\* the second invocation reads a parsed chunk
TwinChunk(event) ==
  /\ twin.pc = "reading" /\ Len(twin.consumed) < MaxChunks
  /\ event.kind = "json"
  /\ LET r == TwinChunkStep(twin, idCounter, event)
     IN  twin' = r.closure /\ idCounter' = r.idCounter
  /\ UNCHANGED <<pc, consumed, usage, partialToolCalls, textId, reasoningId, out>>
  /\ UNCHANGED <<callVars, pipeVars, recommendation>>

\* the byte stream of the second invocation ends
TwinEndOfInput ==
  /\ twin.pc = "reading"
  /\ twin' = TwinAfterLoop(twin)
  /\ UNCHANGED <<mapperVars, callVars, pipeVars, recommendation>>

TwinChunks ==
  {JsonChunk(UsageField(1, MaxTokens), <<Fragment(0, <<"get">>, <<"{", "}">>)>>,
             "a", NoField, NoField),
   JsonChunk(UsageField(MaxTokens, 1), <<>>, NoField, "b", "c")}

TwinOutputs ==
  {Output("r", "t", <<>>, NoUsageField, "stop"),
   Output(NoField, "t", <<BackendToolCall(<<"get">>, <<"{", "}">>)>>,
          UsageField(1, MaxTokens), "tool_calls")}

\* two streams are being mapped while doStream is called with tools on
InitTwin ==
  /\ pc = "reading" /\ MapperFresh
  /\ twin = Closure("reading")
  /\ prompt = <<Turn("user", <<>>, <<TextPart(<<Lit("u")>>)>>)>>
  /\ toolsOn = TRUE
  /\ frequencyPenalty = NoField
  /\ presencePenalty = NoField
  /\ cpc = "start"
  /\ path = "none"
  /\ conv = NoConv
  /\ runCalls = <<>>
  /\ runOutput = NoOutput
  /\ genResult = NoResult
  /\ sout = <<>>
  /\ NoPipe /\ NoRecommendation

NextTwin ==
  \/ \E event \in TwinChunks : Chunk(event)
  \/ EndOfInput
  \/ \E event \in TwinChunks : TwinChunk(event)
  \/ TwinEndOfInput
  \/ DoStreamCall
  \/ \E o \in TwinOutputs : DoStreamSimulated(o)

SpecTwin == InitTwin /\ [][NextTwin]_vars

\* the ids of the events renamed to their rank among the ids of the sequence
IdsOf(evs) == {evs[i].id : i \in 1..Len(evs)} \ {0}

NormalizeIds(evs) ==
  [i \in 1..Len(evs) |->
     [evs[i] EXCEPT !.id = Cardinality({x \in IdsOf(evs) : x <= evs[i].id})]]

\* the closure an invocation has after reading evs with no other stream about
RECURSIVE MappedAlone(_, _, _)
MappedAlone(evs, m, ids) ==
  IF evs = <<>> THEN m
  ELSE LET r == TwinChunkStep(m, ids, Head(evs))
       IN  MappedAlone(Tail(evs), r.closure, r.idCounter)

AloneOut(evs, closed) ==
  LET m == MappedAlone(evs, Closure("reading"), 0)
  IN  IF closed THEN TwinAfterLoop(m).out ELSE m.out

\* where an event of the mapped stream stands in the closing order
ClosingRank(type) ==
  CASE type = "tool-call" -> 1
    [] type = "reasoning-end" -> 2
    [] type = "text-end" -> 3
    [] type = "finish" -> 4
    [] OTHER -> 0

\* starts and deltas, then tool calls, then reasoning-end, text-end, finish
InClosingOrder(evs) ==
  \A i, j \in 1..Len(evs) : i < j => ClosingRank(evs[i].type) <= ClosingRank(evs[j].type)

\* reasoning-end, then text-end, then finish, each after every delta
EndsInOrder(evs) ==
  \A i, j \in 1..Len(evs) :
    (i < j /\ ClosingRank(evs[i].type) >= 2) =>
      /\ ClosingRank(evs[j].type) >= 2
      /\ ClosingRank(evs[i].type) < ClosingRank(evs[j].type)

\* C22: the events of getMappedStream are, in this order, the starts and
\* deltas, all tool calls, reasoning-end, text-end, finish: no tool call
\* precedes a delta and reasoning-end never follows text-end; nothing of the
\* closing group is emitted before the input has ended. The simulated
\* stream ends with reasoning-end, then text-end, then finish.
C22_ClosingOrder ==
  /\ InClosingOrder(out)
  /\ pc # "closed" => \A i \in 1..Len(out) : ClosingRank(out[i].type) = 0
  /\ pc = "closed" => EndsInOrder(out) /\ out[Len(out)].type = "finish"
  /\ cpc = "returned" => EndsInOrder(sout) /\ sout[Len(sout)].type = "finish"

C22_Witness ==
  /\ pc = "closed" /\ cpc = "returned"
  /\ Count(out, "tool-call") = 1
  /\ Count(out, "reasoning-end") = 1 /\ Count(out, "text-end") = 1
  /\ Count(sout, "reasoning-end") = 1 /\ Count(sout, "text-end") = 1

\* C16: with the chunks of two streams arriving interleaved, and a simulated
\* doStream running in between, the events of each stream are, up to the
\* generated ids, the events it yields when mapped alone, and each usage
\* snapshot and fragment table is that of the stream's own chunks.
C16_StreamsIsolated ==
  /\ NormalizeIds(out) = NormalizeIds(AloneOut(consumed, pc = "closed"))
  /\ NormalizeIds(twin.out) = NormalizeIds(AloneOut(twin.consumed, twin.pc = "closed"))
  /\ usage = LastSeenUsage(consumed) /\ twin.usage = LastSeenUsage(twin.consumed)
  /\ partialToolCalls = AllFragments(consumed)
  /\ twin.partialToolCalls = AllFragments(twin.consumed)
  /\ cpc = "returned" =>
       NormalizeIds(sout) = NormalizeIds(SimulatedStream(genResult, genResult.warnings, 0).out)

C16_Witness ==
  /\ pc = "closed" /\ twin.pc = "closed" /\ cpc = "returned"
  /\ consumed # twin.consumed
  /\ \E i, j \in IdsOf(out) : \E k \in IdsOf(twin.out) : \E l \in IdsOf(sout) :
       i < k /\ k < l /\ l < j

----------------------------------------------------------------------------
\* More claims about getMappedStream on its own

\* the parsed chunks of an input history
JsonChunksOf(evs) == SelectSeq(evs, LAMBDA e : e.kind = "json")

\* C23: [DONE] is the last event read and closes the stream, so nothing
\* that follows it contributes; an event without payload leaves no trace:
\* the output, the usage snapshot and the fragment table are those of the
\* parsed chunks read, as if the payload-less events had not been there.
C23_StopsAtDoneSkipsEmpty ==
  /\ \A i \in 1..Len(consumed) :
       consumed[i].kind = "done" => (i = Len(consumed) /\ pc = "closed")
  /\ out = AloneOut(JsonChunksOf(consumed), pc = "closed")
  /\ usage = LastSeenUsage(JsonChunksOf(consumed))
  /\ partialToolCalls = AllFragments(JsonChunksOf(consumed))

C23_Witness ==
  /\ pc = "closed"
  /\ [i \in 1..Len(consumed) |-> consumed[i].kind] = <<"empty", "json", "done">>
  /\ [i \in 1..Len(out) |-> out[i].type] = <<"text-start", "text-delta", "text-end", "finish">>

DeltaTypes == {"text-delta", "reasoning-delta"}

DeltasOf(evs, types) ==
  LET ds == SelectSeq(evs, LAMBDA e : e.type \in types)
  IN  [i \in 1..Len(ds) |-> <<ds[i].type, ds[i].delta>>]

\* the deltas a history of events asks for, chunk after chunk
RECURSIVE ExpectedDeltas(_, _)
ExpectedDeltas(evs, types) ==
  IF evs = <<>> THEN <<>>
  ELSE LET e == Head(evs)
           given(s) == e.kind = "json" /\ s # NoField /\ s # ""
       IN  (IF "text-delta" \in types /\ given(e.response)
            THEN <<<<"text-delta", e.response>>>> ELSE <<>>)
           \o (IF "reasoning-delta" \in types /\ given(e.reasoning_content)
               THEN <<<<"reasoning-delta", e.reasoning_content>>>> ELSE <<>>)
           \o (IF "text-delta" \in types /\ given(e.content)
               THEN <<<<"text-delta", e.content>>>> ELSE <<>>)
           \o ExpectedDeltas(Tail(evs), types)

\* C24: text of the top-level response field and text of the choices field
\* go into one text block: whichever arrives first emits the only
\* text-start, and every text-delta, from either field, carries its id.
C24_OneBlockForBothTextFields ==
  /\ Count(out, "text-start") = (IF ExpectedDeltas(consumed, {"text-delta"}) = <<>> THEN 0 ELSE 1)
  /\ \A i \in Positions(out, "text-delta") :
       \E j \in 1..(i - 1) : out[j].type = "text-start" /\ out[j].id = out[i].id
  /\ DeltasOf(out, {"text-delta"}) = ExpectedDeltas(consumed, {"text-delta"})

C24_Witness ==
  /\ pc = "closed"
  /\ DeltasOf(out, {"text-delta"})
       = <<<<"text-delta", "c">>, <<"text-delta", "a">>, <<"text-delta", "c">>>>

\* C25: the deltas come out in the order of the chunks, and within one
\* chunk in the order response text, reasoning, choices text; a field that
\* is absent or empty emits nothing.
C25_DeltasInChunkOrder == DeltasOf(out, DeltaTypes) = ExpectedDeltas(consumed, DeltaTypes)

C25_Witness ==
  /\ Len(consumed) = 3
  /\ consumed[1] = JsonChunk(NoUsageField, <<>>, "a", "b", "c")
  /\ consumed[2] = JsonChunk(NoUsageField, <<>>, "", "", "")
  /\ consumed[3] = JsonChunk(NoUsageField, <<>>, NoField, "b", NoField)
  /\ Len(DeltasOf(out, DeltaTypes)) = 4

\* a history without text, reasoning, tool calls or usage
NothingProduced(evs) ==
  \A i \in 1..Len(evs) :
    /\ evs[i].kind # "bad"
    /\ evs[i].response \in {NoField, ""}
    /\ evs[i].reasoning_content \in {NoField, ""}
    /\ evs[i].content \in {NoField, ""}
    /\ evs[i].tool_calls = <<>>
    /\ ~evs[i].usage.present

\* C26: a stream that ends without having produced any content, tool call
\* or usage yields exactly one event: finish, with reason "stop" and zero
\* usage.
C26_EmptyStreamFinishesOnly ==
  (pc = "closed" /\ NothingProduced(consumed)) => out = <<FinishEv("stop", ZeroUsage)>>

C26_Witness ==
  /\ pc = "closed"
  /\ consumed = <<EmptyEvent, JsonChunk(NoUsageField, <<>>, "", "", ""), DoneEvent>>
  /\ out = <<FinishEv("stop", ZeroUsage)>>

----------------------------------------------------------------------------
\* More claims about the converter

\* the text of the text and reasoning parts, in part order
RECURSIVE TextOfParts(_)
TextOfParts(content) ==
  IF content = <<>> THEN <<>>
  ELSE (IF Head(content).type \in {"text", "reasoning"} THEN Head(content).text ELSE <<>>)
       \o TextOfParts(Tail(content))

CallPositions(content) == {i \in 1..Len(content) : content[i].type = "tool-call"}

\* the JSON of the last tool call, then the text that came after it
ExpectedAssistantText(content) ==
  IF CallPositions(content) = {} THEN TextOfParts(content)
  ELSE LET last == Max(CallPositions(content))
       IN  <<JsonOfCall(content[last].toolName, content[last].input)>>
           \o TextOfParts(SubSeq(content, last + 1, Len(content)))

ExpectedCallRecords(content) ==
  LET calls == SelectSeq(content, LAMBDA part : part.type = "tool-call")
  IN  [i \in 1..Len(calls) |->
         [function |-> [arguments |-> JsonOf(calls[i].input), name |-> calls[i].toolName],
          id |-> FunctionId(calls[i].toolName, i - 1), type |-> "function"]]

\* C27: the message of an assistant turn has as content the JSON of
\* {name, parameters} of the turn's last tool call followed by the text and
\* reasoning after it (all text and reasoning, in part order, when the turn
\* has no tool call); its tool_calls holds one record per tool-call part in
\* part order, and is left out when the turn has no tool-call part.
C27_AssistantTurnConversion ==
  (conv.done /\ conv.error = "") =>
    \A k \in 1..Len(prompt) :
      prompt[k].role = "assistant" =>
        LET message == conv.messages[MessagesBefore(prompt, k) + 1]
        IN  /\ message.role = "assistant"
            /\ message.content = ExpectedAssistantText(prompt[k].content)
            /\ message.tool_calls = ExpectedCallRecords(prompt[k].content)
            /\ message.hasToolCalls = (CallPositions(prompt[k].content) # {})

C27_Witness ==
  /\ conv.done /\ conv.error = ""
  /\ Len(prompt) = 2
  /\ prompt[1].content = <<TextPart(<<Lit("a")>>), ToolCallPart("call_1", "get", "v1")>>
  /\ prompt[2].content = <<ReasoningPart(<<Lit("r")>>), TextPart(<<Lit("a")>>)>>
  /\ prompt[2].role = "assistant"
  /\ conv.messages[1].content = <<JsonOfCall("get", "v1")>>
  /\ conv.messages[2].content = <<Lit("r"), Lit("a")>>
  /\ ~conv.messages[2].hasToolCalls

----------------------------------------------------------------------------
\* More claims about the streams doStream returns

\* C28: a stream doStream returned starts with stream-start and holds no
\* other stream-start; on the streaming branch what follows is, in order and
\* without gap or repetition, the events the mapped stream has emitted, as
\* many as were forwarded, and once the stream is closed all of them, the
\* last being the mapped stream's finish.
C28_StartThenMapperEvents ==
  /\ cpc \in {"piping", "returned"} =>
       /\ sout # <<>> /\ sout[1].type = "stream-start"
       /\ Count(sout, "stream-start") = 1
  /\ cpc \notin {"piping", "returned"} => sout = <<>>
  /\ cpc = "piping" =>
       /\ Len(sout) - 1 <= Len(out)
       /\ Tail(sout) = SubSeq(out, 1, Len(sout) - 1)
       /\ ~cancelled => Len(sout) - 1 = forwarded
  /\ ppc = "closed" =>
       /\ pc = "closed"
       /\ Tail(sout) = out
       /\ sout[Len(sout)].type = "finish"

C28_Witness ==
  /\ cpc = "piping" /\ ppc = "closed" /\ ~cancelled
  /\ [i \in 1..Len(sout) |-> sout[i].type]
       = <<"stream-start", "text-start", "text-delta", "reasoning-start", "reasoning-delta",
           "text-delta", "reasoning-end", "text-end", "finish">>

----------------------------------------------------------------------------
\* mapWorkersAIUsage over a range of usage records: doGenerate applies it to
\* whatever binding.run resolved to

UsageOutputs ==
  {Output(NoField, "t", <<>>, u, "stop") :
     u \in {NoUsageField}
           \cup {UsageField(p, c) : p \in 0..MaxUsageTokens, c \in 0..MaxUsageTokens}}

InitUsage ==
  /\ MapperUnstarted
  /\ prompt = <<Turn("user", <<>>, <<TextPart(<<Lit("u")>>)>>)>>
  /\ toolsOn = FALSE
  /\ frequencyPenalty \in Penalties
  /\ presencePenalty = NoField
  /\ cpc = "start"
  /\ path = "none"
  /\ conv = NoConv
  /\ runCalls = <<>>
  /\ runOutput = NoOutput
  /\ genResult = NoResult
  /\ sout = <<>>
  /\ NoPipe /\ NoTwin /\ NoRecommendation

NextUsage ==
  \/ DoGenerateCall
  \/ \E o \in UsageOutputs : DoGenerateReturn(o)

SpecUsage == InitUsage /\ [][NextUsage]_vars

\* C29: the usage of a result is a function of the backend's usage record
\* alone: inputTokens is prompt_tokens, outputTokens is completion_tokens,
\* totalTokens is their sum, and an output without usage gives {0, 0, 0}.
C29_UsageTriple ==
  cpc = "returned" =>
    IF runOutput.usage.present
    THEN /\ genResult.usage.inputTokens = runOutput.usage.prompt_tokens
         /\ genResult.usage.outputTokens = runOutput.usage.completion_tokens
         /\ genResult.usage.totalTokens
              = runOutput.usage.prompt_tokens + runOutput.usage.completion_tokens
    ELSE genResult.usage = ZeroUsage

C29_Witness ==
  /\ cpc = "returned"
  /\ runOutput.usage = UsageField(MaxUsageTokens, 1)
  /\ genResult.usage.inputTokens = MaxUsageTokens
  /\ genResult.usage.totalTokens = MaxUsageTokens + 1

----------------------------------------------------------------------------
\* makeProductRecommendationTool (tools.ts) and ProductRecommendationWorkflow
\* (workflows/product-recommendation.ts). A product is [id, price, rating];
\* a price bound reaches the tool as an optional string.

\* the decimal string of a one-digit number
PriceString(n) == <<"0", "1", "2", "3", "4", "5", "6", "7", "8", "9">>[n + 1]

\* Number(s): NaN for undefined and for text that is not a number
Number(s) ==
  IF \E n \in 0..9 : PriceString(n) = s
  THEN Num(CHOOSE n \in 0..9 : PriceString(n) = s)
  ELSE NaN

\* bound != null ? p.price >= bound : true   (a comparison with NaN is false)
meetsMin(p, bound) ==
  IF bound.kind = "undefined" THEN TRUE
  ELSE bound.kind = "number" /\ p.price >= bound.n

\* bound != null ? p.price <= bound : true
meetsMax(p, bound) ==
  IF bound.kind = "undefined" THEN TRUE
  ELSE bound.kind = "number" /\ p.price <= bound.n

\* execute, up to the creation of the workflow instance:
\* params: { query, minPriceNum, maxPriceNum }
execute(minPrice, maxPrice) ==
  /\ recommendation.tool = "idle"
  /\ recommendation' =
       [recommendation EXCEPT
          !.tool = "polling", !.instances = @ + 1, !.pc = "created",
          !.minPrice = minPrice, !.maxPrice = maxPrice,
          !.payload = Params(Undefined, Undefined, Number(minPrice), Number(maxPrice))]
  /\ UNCHANGED <<mapperVars, callVars, pipeVars, twin>>

\* what instance.status() reports for a position of run
InstanceStatus(position) ==
  IF position \in {"complete", "errored"} THEN position ELSE "running"

\* status = await instance.status(), before the loop and in its body
Poll ==
  /\ recommendation.tool = "polling"
  /\ recommendation.status \notin {"complete", "errored"}
  /\ recommendation' = [recommendation EXCEPT !.status = InstanceStatus(recommendation.pc)]
  /\ UNCHANGED <<mapperVars, callVars, pipeVars, twin>>

\* step "fetch products"
FetchProducts(products) ==
  /\ recommendation.pc = "created"
  /\ recommendation' = [recommendation EXCEPT !.pc = "fetched", !.fetchedProducts = products,
                                              !.steps = Append(@, "fetch products")]
  /\ UNCHANGED <<mapperVars, callVars, pipeVars, twin>>

\* step "filter products based on rating and price range"
FilterProducts ==
  /\ recommendation.pc = "fetched"
  /\ LET minPrice == recommendation.payload.minPrice
         maxPrice == recommendation.payload.maxPrice
     IN  recommendation' =
           [recommendation EXCEPT
              !.pc = "filtered",
              !.steps = Append(@, "filter products"),
              !.filteredProducts =
                 SelectSeq(recommendation.fetchedProducts,
                           LAMBDA p : p.rating >= 2 /\ meetsMin(p, minPrice)
                                      /\ meetsMax(p, maxPrice))]
  /\ UNCHANGED <<mapperVars, callVars, pipeVars, twin>>

\* rankedIds.map((id) => filteredProducts.find((p) => p.id === id)).filter(Boolean)
RECURSIVE Ranked(_, _)
Ranked(rankedIds, products) ==
  IF rankedIds = <<>> THEN <<>>
  ELSE LET found == SelectSeq(products, LAMBDA p : p.id = Head(rankedIds))
       IN  (IF found = <<>> THEN <<>> ELSE <<Head(found)>>) \o Ranked(Tail(rankedIds), products)

RankProducts_NoSlice(rankedIds) ==
  /\ recommendation.pc = "filtered"
  /\ recommendation' =
       [recommendation EXCEPT !.pc = "complete", !.rankedIds = rankedIds,
                              !.steps = Append(@, "rank products"),
                              !.topProducts = Ranked(rankedIds, recommendation.filteredProducts)]
  /\ UNCHANGED <<mapperVars, callVars, pipeVars, twin>>

\* step "rank products with LLM" (.slice(0, 3)), and the return of run
RankProducts(rankedIds) ==
  /\ recommendation.pc = "filtered"
  /\ LET all == Ranked(rankedIds, recommendation.filteredProducts)
     IN  recommendation' =
           [recommendation EXCEPT !.pc = "complete", !.rankedIds = rankedIds,
                                  !.steps = Append(@, "rank products"),
                                  !.topProducts = SubSeq(all, 1, Min({3, Len(all)}))]
  /\ UNCHANGED <<mapperVars, callVars, pipeVars, twin>>

\* the model's answer is not a JSON array: JSON.parse throws in the step
RankFails ==
  /\ recommendation.pc = "filtered"
  /\ recommendation' = [recommendation EXCEPT !.pc = "errored",
                                              !.steps = Append(@, "rank products")]
  /\ UNCHANGED <<mapperVars, callVars, pipeVars, twin>>

ExecuteReturns_Early ==
  /\ recommendation.tool = "polling"
  /\ recommendation.status # "errored"
  /\ recommendation' = [recommendation EXCEPT !.tool = "returned",
                                              !.output = recommendation.topProducts]
  /\ UNCHANGED <<mapperVars, callVars, pipeVars, twin>>

\* the loop is left with status "complete": return status.output
ExecuteReturns ==
  /\ recommendation.tool = "polling"
  /\ recommendation.status = "complete"
  /\ recommendation' = [recommendation EXCEPT !.tool = "returned",
                                              !.output = recommendation.topProducts]
  /\ UNCHANGED <<mapperVars, callVars, pipeVars, twin>>

\* the loop is left with status "errored": throw
ExecuteThrows ==
  /\ recommendation.tool = "polling"
  /\ recommendation.status = "errored"
  /\ recommendation' = [recommendation EXCEPT !.tool = "thrown"]
  /\ UNCHANGED <<mapperVars, callVars, pipeVars, twin>>

PriceInputs == {NoField, "x", PriceString(MaxPrice - 1)}

ProductLists ==
  {[i \in 1..MaxProducts |->
      [id |-> i, price |-> price[i], rating |-> IF i = 1 THEN rating ELSE 4]] :
     price \in [1..MaxProducts -> 1..MaxPrice], rating \in {1, 4}}

\* what the ranking model answers: ids of products, possibly repeated,
\* possibly of no product
RankedIdLists ==
  SeqsOf({1, MaxProducts}, 0, 2)
  \cup {[i \in 1..MaxRanked |-> id] : id \in {1, MaxProducts}}
  \cup {<<MaxProducts + 1, 1>>, <<MaxProducts, MaxProducts + 1, 1>>}

\* nothing else is under way; the tool has not been called
InitRecommendation == MapperUnstarted /\ NoCall

NextRecommendation ==
  \/ \E minPrice, maxPrice \in PriceInputs : execute(minPrice, maxPrice)
  \/ Poll
  \/ \E products \in ProductLists : FetchProducts(products)
  \/ FilterProducts
  \/ \E rankedIds \in RankedIdLists : RankProducts(rankedIds)
  \/ RankFails
  \/ ExecuteReturns
  \/ ExecuteThrows

SpecRecommendation == InitRecommendation /\ [][NextRecommendation]_vars

\* The same with the scheduling of the runtime: the tool's timer and its
\* awaited status calls complete.
SpecRecommendationFair ==
  /\ InitRecommendation /\ [][NextRecommendation]_vars
  /\ WF_vars(Poll) /\ WF_vars(ExecuteReturns) /\ WF_vars(ExecuteThrows)

\* p.price is within the bounds the tool was called with
InRequestedRange(p) ==
  /\ Number(recommendation.minPrice).kind = "number"
       => p.price >= Number(recommendation.minPrice).n
  /\ Number(recommendation.maxPrice).kind = "number"
       => p.price <= Number(recommendation.maxPrice).n

\* C30: every product of the topProducts the tool returns has a price
\* within the minPrice and maxPrice the tool was called with.
C30_TopProductsInRange ==
  recommendation.tool = "returned" =>
    \A i \in 1..Len(recommendation.output) :
      InRequestedRange(recommendation.output[i])

\* what the tool call has done is consistent with what it observed
PollingDiscipline ==
  /\ recommendation.instances = (IF recommendation.tool = "idle" THEN 0 ELSE 1)
  /\ recommendation.tool = "returned" =>
       /\ recommendation.status = "complete" /\ recommendation.pc = "complete"
       /\ recommendation.output = recommendation.topProducts
  /\ recommendation.tool = "thrown" =>
       recommendation.status = "errored" /\ recommendation.pc = "errored"
  /\ recommendation.status \in {"complete", "errored"} =>
       recommendation.status = recommendation.pc

\* C31: a call of the tool creates one workflow instance; it returns the
\* workflow's output only having observed status complete, throws having
\* observed status errored, does neither on any other status, and once the
\* workflow is complete or errored the call ends.
C31_PollsUntilSettled ==
  /\ []PollingDiscipline
  /\ (recommendation.tool = "polling" /\ recommendation.pc \in {"complete", "errored"})
       ~> (recommendation.tool \in {"returned", "thrown"})

C31_Witness ==
  /\ recommendation.tool = "returned"
  /\ recommendation.instances = 1
  /\ recommendation.status = "complete"
  /\ Len(recommendation.output) = 3

C31_WitnessThrown == recommendation.tool = "thrown" /\ recommendation.status = "errored"

\* the members of a list of products
ProductsOf(products) == {products[i] : i \in 1..Len(products)}

\* the ranked ids that are ids of these products, in ranking order
MatchedIds(rankedIds, products) ==
  SelectSeq(rankedIds, LAMBDA id : \E p \in ProductsOf(products) : p.id = id)

StepOrder == <<"fetch products", "filter products", "rank products">>

\* C32: run does its steps in the order fetch, filter, rank; topProducts
\* has at most 3 products, each one of the fetched products with rating at
\* least 2, and they are the products of the first ranked ids that match a
\* filtered product, in ranking order, unmatched ids leaving no entry.
C32_TopProducts ==
  /\ Len(recommendation.steps) <= 3
  /\ recommendation.steps = SubSeq(StepOrder, 1, Len(recommendation.steps))
  /\ recommendation.pc = "complete" =>
       LET top == recommendation.topProducts
           ids == MatchedIds(recommendation.rankedIds, recommendation.filteredProducts)
       IN  /\ recommendation.steps = StepOrder
           /\ Len(top) <= 3
           /\ \A i \in 1..Len(top) :
                /\ top[i] \in ProductsOf(recommendation.fetchedProducts)
                /\ top[i].rating >= 2
           /\ Len(top) = Min({3, Len(ids)})
           /\ \A i \in 1..Len(top) : top[i].id = ids[i]

C32_Witness ==
  /\ recommendation.pc = "complete"
  /\ recommendation.rankedIds = <<MaxProducts, MaxProducts + 1, 1>>
  /\ Len(recommendation.fetchedProducts) > Len(recommendation.filteredProducts)
  /\ Len(recommendation.topProducts) = 1

C32_WitnessSliced ==
  /\ recommendation.pc = "complete"
  /\ Len(recommendation.rankedIds) = MaxRanked
  /\ Len(recommendation.topProducts) = 3

====
